---- MODULE Spec2Model ----
(***************************************************************************)
(* Review Loop Engine of automaker-loop.                                   *)
(*                                                                         *)
(*   SpecStore    the session store (review-loop-storage): per-feature     *)
(*                promise-chain lock, write-to-temp-then-rename, the CRUD  *)
(*                and transition helpers, readers and a process crash.     *)
(*   SpecMonitor  one polling monitor, PRFeedbackMonitor or PRMergeMonitor *)
(*                (monKind), with its startMonitoring calls, polling       *)
(*                tasks, stopMonitoring and the hosting service.           *)
(*   SpecOrch     the ReviewLoopOrchestrator state machine on top of the   *)
(*                store's session operators, with its manual overrides.    *)
(***************************************************************************)
EXTENDS Integers, Sequences, FiniteSets, TLC

\* ------------------------------------------------------------------------
\* Bounds of the model
\* ------------------------------------------------------------------------
NumFeatures == 2
MaxCalls == 3
MaxTime == 1
MaxCrashes == 1
MaxStarts == 2
MaxFetchErrors == 1
MaxEnvChanges == 1
MaxConcurrentPRs == 1
MaxReviews == 4
MaxRefinings == 4
NumLoops == 1
NumSessions == 1
MaxClock == 2
MaxResults == 2
MaxIssues == 2
MaxDiffLines == 3

Features == 1..NumFeatures
CallIds == 1..MaxCalls
StartIds == 1..MaxStarts
LoopFeatures == 1..NumLoops

\* ------------------------------------------------------------------------
\* Session data (libs/types/src/review-loop.ts)
\* ------------------------------------------------------------------------
ReviewLoopState ==
  {"pending_self_review", "self_reviewing", "self_review_passed",
   "self_review_failed", "refining", "pr_created", "awaiting_pr_feedback",
   "addressing_feedback", "ready_for_human_review", "approved", "merged"}

\* Fields of a ReviewLoopSession.  prNumber and completedAt are optional in
\* the source; 0 stands for "absent".  prUrl always travels with prNumber
\* and is not kept apart.
SessionFields ==
  {"featureId", "state", "iterations", "currentIteration", "prNumber",
   "startedAt", "lastUpdatedAt", "completedAt"}

\* Contents of a path of the file system.
NoFile == [kind |-> "none"]
Partial == [kind |-> "partial"]
Json(s) == [kind |-> "json", data |-> s]

\* A variant that takes a missing file for an empty session.
ReadSessionInternalOrEmpty(content) ==
  IF content.kind = "json" THEN content
  ELSE [kind |-> "json",
        data |-> [featureId |-> 0, state |-> "pending_self_review",
                  iterations |-> <<>>, currentIteration |-> 0, prNumber |-> 0,
                  startedAt |-> 0, lastUpdatedAt |-> 0, completedAt |-> 0]]

\* A variant that never finds a session.
ReadSessionInternalBlind(content) == NoFile

\* JSON.parse of what readFile returned; a missing or unparsable file makes
\* readSessionInternal return null (NoFile here).
ReadSessionInternal(content) ==
  IF content.kind = "json" THEN content ELSE NoFile

\* The session object createSession builds.
NewSession(f, initialState, t) ==
  [featureId |-> f, state |-> initialState, iterations |-> <<>>,
   currentIteration |-> 0, prNumber |-> 0, startedAt |-> t,
   lastUpdatedAt |-> t, completedAt |-> 0]

\* A variant that stores the payload over a fresh session, not over the
\* existing one.
UpdateSessionReplace(existing, updates, t) ==
  [k \in SessionFields |->
     CASE k = "featureId" -> existing.featureId
       [] k = "startedAt" -> existing.startedAt
       [] k = "lastUpdatedAt" -> t
       [] OTHER -> IF k \in DOMAIN updates THEN updates[k]
                   ELSE NewSession(existing.featureId, "pending_self_review", t)[k]]

\* A variant without the two lines that restore featureId and startedAt.
UpdateSessionSpread(existing, updates, t) ==
  [k \in SessionFields |->
     CASE k = "lastUpdatedAt" -> t
       [] OTHER -> IF k \in DOMAIN updates THEN updates[k] ELSE existing[k]]

\* { ...existing, ...updates, featureId, startedAt, lastUpdatedAt: now }
UpdateSessionApply(existing, updates, t) ==
  [k \in SessionFields |->
     CASE k = "featureId" -> existing.featureId
       [] k = "startedAt" -> existing.startedAt
       [] k = "lastUpdatedAt" -> t
       [] OTHER -> IF k \in DOMAIN updates THEN updates[k] ELSE existing[k]]

\* A variant that appends the result and leaves currentIteration alone.
AddReviewResultKeepsIteration(existing, result, t) ==
  [existing EXCEPT !.iterations = Append(existing.iterations, result),
                   !.lastUpdatedAt = t]

\* { ...existing, iterations: [...iterations, result],
\*   currentIteration: result.iteration, lastUpdatedAt: now }
AddReviewResultApply(existing, result, t) ==
  [existing EXCEPT !.iterations = Append(existing.iterations, result),
                   !.currentIteration = result.iteration,
                   !.lastUpdatedAt = t]

\* Payloads of the helpers built on updateSession.
TransitionStateUpdates(newState) == [state |-> newState]
CompleteSessionUpdates(finalState, t) == [state |-> finalState, completedAt |-> t]
LinkPRUpdates(prNumber) == [prNumber |-> prNumber, state |-> "pr_created"]

\* ------------------------------------------------------------------------
\* Inputs the callers draw from
\* ------------------------------------------------------------------------
InitialStates == {"pending_self_review"}
TransitionTargets == {"merged"}
FinalStates == {"approved", "merged"}
PRNumbers == {7}
DirectUpdates ==
  { [state |-> "self_reviewing"],
    [prNumber |-> 9] }
ResultIterations == {1}
Verdicts == {"needs_work"}

VARIABLES
  now,           \* the wall clock new Date() reads
  fs,            \* file system: path -> content
  sessionLocks,  \* Map<featureId, Promise>: the call whose lock is stored, 0 = no entry
  call,          \* the store calls issued so far, by issue order
  nCalls,        \* number of calls issued
  crashes,       \* number of process crashes so far
  readLog        \* what the readSession that has just returned gave its caller

VARIABLES
  monKind,          \* which monitor class this instance is: "feedback" or "merge"
  autoPull,         \* settings.autoPull as getGlobalSettings returns it
  monitoredPRs,     \* Map<featureId, state>: the state object stored, 0 = no entry
  monitoringLoops,  \* Map<featureId, AbortController>: the controller stored, 0 = no entry
  mon,              \* per startMonitoring call: the call, its state object, its
                    \* AbortController and the polling task it launched
  nStarts,          \* startMonitoring calls so far
  nFetchErrors,     \* failed polls so far
  nEnvChanges,      \* changes of the pull requests' feedback so far
  prRemote,         \* hosting service: state of each feature's pull request
  prFeedback,       \* hosting service: comments, reviews, checks of each pull request
  featureStatus,    \* FeatureLoader: status of each feature
  events,           \* events emitted so far, per feature and type
  quiet             \* stopMonitoring emitted stopped and no startMonitoring came since

VARIABLES
  maxIterations,    \* config.maxIterations of the orchestrator
  loopSession,      \* per feature: the session the orchestrator works on
  refinings,        \* per feature: how often the loop itself entered refining
  overridden        \* per feature: a manual override was used

VARIABLES
  lastOp            \* the store call the sequential client made last

VARIABLES
  gateInput,        \* the input handed to the quality gate and the refinement check
  gateOut,          \* what evaluateQualityGate returned for it
  refineOut         \* what evaluateRefinement returned for it

VARIABLES
  archive           \* the archiveOldSessions call: its position and what it read

VARIABLES
  diffInput,        \* the unified diff handed to parseDiff
  diffOut           \* the summary parseDiff returned for it

storeVars == <<now, fs, sessionLocks, call, nCalls, crashes, readLog>>
monVars == <<monKind, autoPull, monitoredPRs, monitoringLoops, mon, nStarts,
             nFetchErrors, nEnvChanges, prRemote, prFeedback, featureStatus,
             events, quiet>>
orchVars == <<maxIterations, loopSession, refinings, overridden>>
seqVars == <<lastOp>>
gateVars == <<gateInput, gateOut, refineOut>>
archVars == <<archive>>
diffVars == <<diffInput, diffOut>>
vars == <<now, fs, sessionLocks, call, nCalls, crashes, readLog,
          monKind, autoPull, monitoredPRs, monitoringLoops, mon, nStarts,
          nFetchErrors, nEnvChanges, prRemote, prFeedback, featureStatus,
          events, quiet,
          maxIterations, loopSession, refinings, overridden,
          lastOp, gateInput, gateOut, refineOut,
          archive, diffInput, diffOut>>

\* Paths: the session file of a feature, the temp file of a call, the
\* archived session of a feature and the temp file of its archive write.
SessionPath(f) == <<"session", f>>
TempPath(i) == <<"tmp", i>>
ArchivePath(f) == <<"archive", f>>
ArchiveTempPath(f) == <<"archive-tmp", f>>
Paths ==
  {SessionPath(f) : f \in Features} \cup {TempPath(i) : i \in CallIds}
    \cup {ArchivePath(f) : f \in Features}
    \cup {ArchiveTempPath(f) : f \in Features}

\* A reading of the clock (new Date()): time may have advanced since the
\* last reading, or not.  Time starts at 1; 0 marks an absent timestamp.
ClockReadings == {t \in {now, now + 1} : t <= MaxTime}

NoCall ==
  [api |-> "none", op |-> "none", f |-> 0, upd |-> <<>>, res |-> <<>>,
   st |-> "none", pc |-> "unissued", prev |-> 0, resolved |-> FALSE,
   base |-> NoFile, out |-> NoFile, result |-> "none"]

Issued == 1..nCalls

NoRead == [f |-> 0, got |-> NoFile]

\* ------------------------------------------------------------------------
\* withSessionLock
\* ------------------------------------------------------------------------
\* The synchronous head of withSessionLock: previousLock is the stored lock
\* (or a resolved promise), and the caller's own lock replaces it at once.
\* sessionLocks.get(lockKey) ?? Promise.resolve()
PreviousLockIgnored(f) == 0
PreviousLockShared(f) == nCalls
PreviousLock(f) == sessionLocks[f]

IssueCall(api, op, f, upd, res, st) ==
  /\ nCalls < MaxCalls
  /\ call' = [call EXCEPT ![nCalls + 1] =
                [NoCall EXCEPT !.api = api, !.op = op, !.f = f, !.upd = upd,
                               !.res = res, !.st = st, !.pc = "waiting",
                               !.prev = PreviousLock(f)]]
  /\ sessionLocks' = [sessionLocks EXCEPT ![f] = nCalls + 1]
  /\ nCalls' = nCalls + 1

\* A variant whose lock is released when the previous call's body starts
\* instead of when it has settled.
PreviousLockResolvedEarly(i) ==
  IF call[i].prev = 0 THEN TRUE ELSE call[call[i].prev].pc # "waiting"

\* await previousLock: the promise of the previous call has been resolved.
PreviousLockNotAwaited(i) == TRUE
PreviousLockResolved(i) ==
  IF call[i].prev = 0 THEN TRUE ELSE call[call[i].prev].resolved

\* finally: resolve the own lock, drop the map entry when it is still ours.
ReleaseLocksAlways(i) == [sessionLocks EXCEPT ![call[i].f] = 0]
ReleaseLocks(i) ==
  IF sessionLocks[call[i].f] = i
    THEN [sessionLocks EXCEPT ![call[i].f] = 0]
    ELSE sessionLocks

\* A variant that resolves the own lock only when the operation returned.
FinishResolvesOnReturn(i, result, base, out) ==
  [call EXCEPT ![i].pc = "done", ![i].resolved = (result = "ok"),
               ![i].result = result, ![i].base = base, ![i].out = out]

Finish(i, result, base, out) ==
  [call EXCEPT ![i].pc = "done", ![i].resolved = TRUE, ![i].result = result,
               ![i].base = base, ![i].out = out]

\* ------------------------------------------------------------------------
\* The public operations: each one issues a locked call
\* ------------------------------------------------------------------------
CreateSession(f, initialState) ==
  /\ IssueCall("createSession", "create", f, <<>>, <<>>, initialState)
  /\ readLog' = NoRead /\ UNCHANGED <<now, fs, crashes>>
  /\ UNCHANGED <<monVars, orchVars, seqVars, gateVars, archVars,
                    diffVars>>

UpdateSession(f, updates) ==
  /\ IssueCall("updateSession", "update", f, updates, <<>>, "none")
  /\ readLog' = NoRead /\ UNCHANGED <<now, fs, crashes>>
  /\ UNCHANGED <<monVars, orchVars, seqVars, gateVars, archVars,
                    diffVars>>

TransitionState(f, newState) ==
  /\ IssueCall("transitionState", "update", f, TransitionStateUpdates(newState),
               <<>>, "none")
  /\ readLog' = NoRead /\ UNCHANGED <<now, fs, crashes>>
  /\ UNCHANGED <<monVars, orchVars, seqVars, gateVars, archVars,
                    diffVars>>

\* completedAt is read from the clock by completeSession itself, before the
\* call queues behind the lock.
CompleteSession(f, finalState) ==
  \E t \in ClockReadings :
    /\ now' = t
    /\ IssueCall("completeSession", "update", f,
                 CompleteSessionUpdates(finalState, t), <<>>, "none")
    /\ readLog' = NoRead /\ UNCHANGED <<fs, crashes>>
  /\ UNCHANGED <<monVars, orchVars, seqVars, gateVars, archVars,
                    diffVars>>

LinkPR(f, prNumber) ==
  /\ IssueCall("linkPR", "update", f, LinkPRUpdates(prNumber), <<>>, "none")
  /\ readLog' = NoRead /\ UNCHANGED <<now, fs, crashes>>
  /\ UNCHANGED <<monVars, orchVars, seqVars, gateVars, archVars,
                    diffVars>>

\* A review result; summary carries the identity of the result.
AddReviewResult(f, verdict, iteration) ==
  /\ IssueCall("addReviewResult", "add", f, <<>>,
               [verdict |-> verdict, iteration |-> iteration,
                summary |-> nCalls + 1], "none")
  /\ readLog' = NoRead /\ UNCHANGED <<now, fs, crashes>>
  /\ UNCHANGED <<monVars, orchVars, seqVars, gateVars, archVars,
                    diffVars>>

DeleteSession(f) ==
  /\ IssueCall("deleteSession", "delete", f, <<>>, <<>>, "none")
  /\ readLog' = NoRead /\ UNCHANGED <<now, fs, crashes>>
  /\ UNCHANGED <<monVars, orchVars, seqVars, gateVars, archVars,
                    diffVars>>

\* ------------------------------------------------------------------------
\* The body of a locked call
\* ------------------------------------------------------------------------
\* The lock is acquired and the session file is read.  create throws when a
\* session exists, update and addReviewResult throw when none does; otherwise
\* the new session object is built and the atomic write starts.
BeginWrite(i) ==
  /\ i \in Issued
  /\ call[i].pc = "waiting"
  /\ call[i].op \in {"create", "update", "add"}
  /\ PreviousLockResolved(i)
  /\ LET f == call[i].f
         existing == ReadSessionInternal(fs[SessionPath(f)])
         found == existing.kind = "json"
     IN  IF (call[i].op = "create") = found
           THEN /\ call' = Finish(i, IF found THEN "exists" ELSE "notfound",
                                  existing, NoFile)
                /\ sessionLocks' = ReleaseLocks(i)
                /\ readLog' = NoRead /\ UNCHANGED <<now, fs, nCalls, crashes>>
           ELSE \E t \in ClockReadings :
                  /\ now' = t
                  /\ call' = [call EXCEPT
                       ![i].pc = "writeTmp",
                       ![i].base = existing,
                       ![i].out =
                         CASE call[i].op = "create" ->
                                Json(NewSession(f, call[i].st, t))
                           [] call[i].op = "update" ->
                                Json(UpdateSessionApply(existing.data, call[i].upd, t))
                           [] OTHER ->
                                Json(AddReviewResultApply(existing.data, call[i].res, t))]
                  /\ readLog' = NoRead /\ UNCHANGED <<fs, sessionLocks, nCalls, crashes>>
  /\ UNCHANGED <<monVars, orchVars, seqVars, gateVars, archVars,
                    diffVars>>

\* ------------------------------------------------------------------------
\* writeFileAtomic
\* ------------------------------------------------------------------------
\* The path writeFile writes to: a uniquely named temp file.
WritePathInPlace(i) == SessionPath(call[i].f)
WritePath(i) == TempPath(i)

\* secureFs.writeFile(tempPath, json): the file is created and filled; a
\* reader or a crash in between finds it partly written.
WriteTempOpen(i) ==
  /\ i \in Issued
  /\ call[i].pc = "writeTmp"
  /\ fs' = [fs EXCEPT ![WritePath(i)] = Partial]
  /\ call' = [call EXCEPT ![i].pc = "writing"]
  /\ readLog' = NoRead /\ UNCHANGED <<now, sessionLocks, nCalls, crashes>>
  /\ UNCHANGED <<monVars, orchVars, seqVars, gateVars, archVars,
                    diffVars>>

WriteTempDone(i) ==
  /\ i \in Issued
  /\ call[i].pc = "writing"
  /\ fs' = [fs EXCEPT ![WritePath(i)] = call[i].out]
  /\ call' = [call EXCEPT ![i].pc = "rename"]
  /\ readLog' = NoRead /\ UNCHANGED <<now, sessionLocks, nCalls, crashes>>
  /\ UNCHANGED <<monVars, orchVars, seqVars, gateVars, archVars,
                    diffVars>>

\* secureFs.rename(tempPath, filePath), atomic; then the operation returns
\* and the lock is released.
RenameOver(from, to) ==
  IF from = to THEN fs
  ELSE [fs EXCEPT ![to] = fs[from], ![from] = NoFile]

Commit(i) ==
  /\ i \in Issued
  /\ call[i].pc = "rename"
  /\ fs' = RenameOver(WritePath(i), SessionPath(call[i].f))
  /\ call' = Finish(i, "ok", call[i].base, call[i].out)
  /\ sessionLocks' = ReleaseLocks(i)
  /\ readLog' = NoRead /\ UNCHANGED <<now, nCalls, crashes>>
  /\ UNCHANGED <<monVars, orchVars, seqVars, gateVars, archVars,
                    diffVars>>

\* writeFile or rename throws: the temp file is unlinked, the error is
\* rethrown and the lock is released.
WriteFails(i) ==
  /\ i \in Issued
  /\ call[i].pc \in {"writeTmp", "writing", "rename"}
  /\ fs' = [fs EXCEPT ![TempPath(i)] = NoFile]
  /\ call' = Finish(i, "ioerror", call[i].base, NoFile)
  /\ sessionLocks' = ReleaseLocks(i)
  /\ readLog' = NoRead /\ UNCHANGED <<now, nCalls, crashes>>
  /\ UNCHANGED <<monVars, orchVars, seqVars, gateVars, archVars,
                    diffVars>>

\* deleteSession: unlink under the lock; true when a file was removed.
Unlink(i) ==
  /\ i \in Issued
  /\ call[i].pc = "waiting"
  /\ call[i].op = "delete"
  /\ PreviousLockResolved(i)
  /\ LET p == SessionPath(call[i].f)
     IN  /\ fs' = [fs EXCEPT ![p] = NoFile]
         /\ call' = Finish(i, IF fs[p].kind = "none" THEN "notfound" ELSE "ok",
                           fs[p], NoFile)
  /\ sessionLocks' = ReleaseLocks(i)
  /\ readLog' = NoRead /\ UNCHANGED <<now, nCalls, crashes>>
  /\ UNCHANGED <<monVars, orchVars, seqVars, gateVars, archVars,
                    diffVars>>

\* ------------------------------------------------------------------------
\* Readers and crashes
\* ------------------------------------------------------------------------
\* The new contents that calls on f are in the middle of writing.
InFlight(f) ==
  {call[i].out : i \in {j \in Issued : /\ call[j].f = f
                                        /\ call[j].pc \in {"writeTmp", "writing", "rename"}}}

\* What the last completed write, unlink or nothing at all left for f.
LastCommitted(f) ==
  LET done == {i \in Issued : /\ call[i].f = f
                              /\ call[i].pc = "done"
                              /\ call[i].result = "ok"}
      Max(S) == CHOOSE m \in S : \A n \in S : n <= m
  IN  IF done = {} THEN NoFile ELSE call[Max(done)].out

\* readSession: no lock, one readFile of the session path.
ReadSession(f) ==
  /\ readLog' = [f |-> f, got |-> ReadSessionInternal(fs[SessionPath(f)])]
  /\ readLog' # readLog
  /\ UNCHANGED <<now, fs, sessionLocks, call, nCalls, crashes>>
  /\ UNCHANGED <<monVars, orchVars, seqVars, gateVars, archVars,
                    diffVars>>

\* The process dies: every pending call and the in-memory lock map are
\* gone, the files stay as they are.
Crash ==
  /\ crashes < MaxCrashes
  /\ \E i \in Issued : call[i].pc # "done"
  /\ crashes' = crashes + 1
  /\ call' = [i \in CallIds |->
                IF i \in Issued /\ call[i].pc \notin {"done", "lost"}
                  THEN [call[i] EXCEPT !.pc = "lost"]
                  ELSE call[i]]
  /\ sessionLocks' = [f \in Features |-> 0]
  /\ readLog' = NoRead /\ UNCHANGED <<now, fs, nCalls>>
  /\ UNCHANGED <<monVars, orchVars, seqVars, gateVars, archVars,
                    diffVars>>

\* ------------------------------------------------------------------------
\* The store used by one client that awaits every call before the next
\*
\* With one call at a time the lock is free when a call arrives and
\* writeFileAtomic either replaces the session file or fails and leaves it.
\* ------------------------------------------------------------------------
SessionFeatures == 1..NumSessions

\* new Date() as this client reads it.
SessionClockReadings(since) == {t \in {since, since + 1} : t <= MaxClock}

\* Payloads the client hands to updateSession.  The type leaves featureId
\* and startedAt out; a caller that passes them anyway is an input too.
SessionUpdates ==
  { [state |-> "self_reviewing"],
    [prNumber |-> 9],
    [iterations |-> <<>>],
    [lastUpdatedAt |-> 0],
    [featureId |-> 0, startedAt |-> 0, state |-> "refining"] }

SessionTargets == {"pending_self_review", "refining"}

SessionResults ==
  { [verdict |-> "needs_work", iteration |-> 1, summary |-> 1],
    [verdict |-> "pass", iteration |-> 2, summary |-> 2] }

NoOp ==
  [api |-> "none", f |-> 0, updates |-> <<>>, before |-> NoFile,
   result |-> "none"]

OpRecord(api, f, updates, result) ==
  [api |-> api, f |-> f, updates |-> updates, before |-> fs[SessionPath(f)],
   result |-> result]

sessionOtherVars ==
  <<sessionLocks, call, nCalls, crashes, monVars, orchVars, gateVars,
    archVars, diffVars>>

\* throw new Error(...) before anything is written.
Throws(api, f, updates, result) ==
  /\ lastOp' = OpRecord(api, f, updates, result)
  /\ readLog' = NoRead
  /\ UNCHANGED <<now, fs>>
  /\ UNCHANGED sessionOtherVars

\* await writeFileAtomic(sessionPath, session); return session
WritesSession(api, f, updates, session, t, wrote) ==
  /\ now' = t
  /\ fs' = IF wrote THEN [fs EXCEPT ![SessionPath(f)] = Json(session)] ELSE fs
  /\ lastOp' = OpRecord(api, f, updates, IF wrote THEN "ok" ELSE "ioerror")
  /\ readLog' = NoRead
  /\ UNCHANGED sessionOtherVars

createSession(f, initialState) ==
  LET existing == ReadSessionInternal(fs[SessionPath(f)])
  IN  IF existing.kind = "json"
        THEN Throws("createSession", f, <<>>, "exists")
        ELSE \E t \in SessionClockReadings(now), wrote \in BOOLEAN :
               WritesSession("createSession", f, <<>>,
                             NewSession(f, initialState, t), t, wrote)

\* updateSession as its callers reach it; since is the last clock reading.
updateSessionFor(api, f, updates, since) ==
  LET existing == ReadSessionInternal(fs[SessionPath(f)])
  IN  IF existing.kind # "json"
        THEN Throws(api, f, updates, "notfound")
        ELSE \E t \in SessionClockReadings(since), wrote \in BOOLEAN :
               WritesSession(api, f, updates,
                             UpdateSessionApply(existing.data, updates, t),
                             t, wrote)

updateSession(f, updates) == updateSessionFor("updateSession", f, updates, now)

transitionState(f, newState) ==
  updateSessionFor("transitionState", f, TransitionStateUpdates(newState), now)

completeSession(f, finalState) ==
  \E t0 \in SessionClockReadings(now) :
    updateSessionFor("completeSession", f,
                     CompleteSessionUpdates(finalState, t0), t0)

linkPR(f, prNumber) ==
  updateSessionFor("linkPR", f, LinkPRUpdates(prNumber), now)

addReviewResult(f, result) ==
  LET existing == ReadSessionInternal(fs[SessionPath(f)])
  IN  IF existing.kind # "json"
        THEN Throws("addReviewResult", f, <<>>, "notfound")
        ELSE /\ Len(existing.data.iterations) < MaxResults
             /\ \E t \in SessionClockReadings(now), wrote \in BOOLEAN :
                  WritesSession("addReviewResult", f, <<>>,
                                AddReviewResultApply(existing.data, result, t),
                                t, wrote)

deleteSession(f) ==
  /\ fs' = [fs EXCEPT ![SessionPath(f)] = NoFile]
  /\ lastOp' = OpRecord("deleteSession", f, <<>>,
                        IF fs[SessionPath(f)].kind = "none" THEN "notfound"
                        ELSE "ok")
  /\ readLog' = NoRead
  /\ UNCHANGED now
  /\ UNCHANGED sessionOtherVars

readSession(f) ==
  /\ readLog' = [f |-> f, got |-> ReadSessionInternal(fs[SessionPath(f)])]
  /\ readLog' # readLog
  /\ UNCHANGED <<now, fs, lastOp>>
  /\ UNCHANGED sessionOtherVars

\* ------------------------------------------------------------------------
\* PRFeedbackMonitor and PRMergeMonitor
\*
\* Both classes keep monitoredPRs and monitoringLoops, start one polling
\* task per successful startMonitoring and stop it through its
\* AbortController.  Every await of the code is a point where the other
\* calls and tasks of the same event loop may run; the code between two
\* awaits runs as one step.
\* ------------------------------------------------------------------------
MonitorKinds == {"feedback", "merge"}

\* settings.autoPull: auto-pull off, on without and on with worktree cleanup.
AutoPullSettings ==
  { [enabled |-> FALSE, autoCleanupWorktrees |-> FALSE],
    [enabled |-> TRUE,  autoCleanupWorktrees |-> FALSE],
    [enabled |-> TRUE,  autoCleanupWorktrees |-> TRUE] }

StopReasons == {"completed", "cancelled", "error", "merged"}

StoppedEvent(reason) == "stopped_" \o reason

EventTypes ==
  { "started", "error",
    "stopped_completed", "stopped_cancelled", "stopped_error", "stopped_merged",
    "new_feedback", "checks_changed", "state_changed",
    "pr_merged", "pr_closed", "pull_started", "pull_completed",
    "pull_completed_cleaned", "pull_failed", "worktree_remove" }

ChecksStatus == {"pending", "passing", "failing"}

\* What gh pr view reports for a pull request nobody has touched yet.
NoFeedback ==
  [comments |-> 0, reviews |-> 0, checksStatus |-> "pending",
   mergeable |-> FALSE, requestedChanges |-> FALSE]

\* The state object a startMonitoring call creates before its first fetch.
NewFeedbackState ==
  [lastCommentCount |-> 0, lastReviewCount |-> 0, checksStatus |-> "pending",
   requestedChanges |-> FALSE, mergeable |-> FALSE, status |-> "active"]

NewMergeState == [prState |-> "OPEN"]

NoState == [status |-> "none"]

\* A startMonitoring call that has not been made yet.
NoStart ==
  [f |-> 0, pc |-> "unissued", result |-> "none", obj |-> NoState,
   aborted |-> FALSE, task |-> "none", held |-> 0, sawMerge |-> FALSE]

World ==
  [mon |-> mon, prs |-> monitoredPRs, loops |-> monitoringLoops,
   ev |-> events, quiet |-> quiet, status |-> featureStatus]

Install(w) ==
  /\ mon' = w.mon
  /\ monitoredPRs' = w.prs
  /\ monitoringLoops' = w.loops
  /\ events' = w.ev
  /\ quiet' = w.quiet
  /\ featureStatus' = w.status

emitEvent(w, f, type) == [w EXCEPT !.ev[f][type] = @ + 1]

\* A variant for a capacity check written size > max.
MonitoredSizeOffByOne(w) == Cardinality({f \in Features : w.prs[f] # 0}) - 1

MonitoredSize(w) == Cardinality({f \in Features : w.prs[f] # 0})

\* A variant without the early return for a feature that has no entry.
stopMonitoringUnguarded(w, f, reason) ==
  LET state == w.prs[f]
      ctrl == w.loops[f]
      aborted == IF ctrl # 0 THEN [w.mon EXCEPT ![ctrl].aborted = TRUE]
                 ELSE w.mon
      marked == IF monKind = "feedback" /\ state # 0
                THEN [aborted EXCEPT ![state].obj.status = "stopped"]
                ELSE aborted
  IN  emitEvent([w EXCEPT !.mon = marked, !.loops[f] = 0, !.prs[f] = 0,
                          !.quiet[f] = TRUE],
                f, StoppedEvent(reason))

\* stopMonitoring runs without an await: abort the stored controller, drop
\* both map entries, emit stopped.
stopMonitoring(w, f, reason) ==
  LET state == w.prs[f]
      ctrl == w.loops[f]
      aborted == IF ctrl # 0 THEN [w.mon EXCEPT ![ctrl].aborted = TRUE]
                 ELSE w.mon
      marked == IF monKind = "feedback"
                THEN [aborted EXCEPT ![state].obj.status = "stopped"]
                ELSE aborted
  IN  IF state = 0 THEN w
      ELSE emitEvent([w EXCEPT !.mon = marked, !.loops[f] = 0, !.prs[f] = 0,
                               !.quiet[f] = TRUE],
                     f, StoppedEvent(reason))

\* A variant in which the task does not go on after a poll.
LoopBreaks(w, c) == [w EXCEPT !.mon[c].task = "ended"]

\* while (!abortController.signal.aborted) { await this.sleep(...) ... }
LoopTop(w, c) ==
  [w EXCEPT !.mon[c].task = IF w.mon[c].aborted THEN "ended" ELSE "sleep"]

\* handlePRMerged runs inside a startMonitoring call (the pull request was
\* merged before monitoring began) or inside a polling task.
Callers == {"start", "task"}

PcOf(c, who) == IF who = "start" THEN mon[c].pc ELSE mon[c].task

Goto(w, c, who, pc) ==
  IF who = "start" THEN [w EXCEPT !.mon[c].pc = pc]
  ELSE [w EXCEPT !.mon[c].task = pc]

Return(w, c, who, result) ==
  IF who = "start" THEN [w EXCEPT !.mon[c].pc = "done", !.mon[c].result = result]
  ELSE LoopTop(w, c)

\* What no call and no task of the monitor writes.
monEnvVars == <<monKind, autoPull, prRemote, prFeedback, nEnvChanges, storeVars,
                orchVars, seqVars, gateVars, archVars,
                    diffVars>>

\* startMonitoring up to its first await: the duplicate check and the
\* capacity check.
StartMonitoring(f) ==
  /\ nStarts < MaxStarts
  /\ LET c == nStarts + 1
         w0 == [World EXCEPT !.mon[c].f = f, !.quiet[f] = FALSE]
     IN  /\ nStarts' = c
         /\ IF monitoredPRs[f] # 0
              THEN Install([w0 EXCEPT !.mon[c].pc = "done",
                                      !.mon[c].result = "already"])
            ELSE IF MonitoredSize(w0) >= MaxConcurrentPRs
              THEN Install(emitEvent([w0 EXCEPT !.mon[c].pc = "done",
                                                !.mon[c].result = "full"],
                                     f, "error"))
            ELSE Install([w0 EXCEPT !.mon[c].pc = "fetch"])
  /\ UNCHANGED nFetchErrors
  /\ UNCHANGED monEnvVars

\* isGhCliAvailable() resolved false.
GhUnavailable(c) ==
  /\ mon[c].pc = "fetch"
  /\ Install(emitEvent([World EXCEPT !.mon[c].pc = "done",
                                     !.mon[c].result = "no_gh"],
                       mon[c].f, "error"))
  /\ UNCHANGED <<nStarts, nFetchErrors>>
  /\ UNCHANGED monEnvVars

\* A variant whose catch does not return: the error is emitted and the
\* call goes on to register.
InitialFetchFailsGoesOn(c) ==
  /\ mon[c].pc = "fetch"
  /\ Install([emitEvent(World, mon[c].f, "error") EXCEPT
                !.mon[c].result = "fetch_failed", !.mon[c].pc = "done",
                !.mon[c].task = "sleep",
                !.prs[mon[c].f] = c, !.loops[mon[c].f] = c])
  /\ UNCHANGED <<nStarts, nFetchErrors>>
  /\ UNCHANGED monEnvVars

\* The initial fetch threw.
InitialFetchFails(c) ==
  /\ mon[c].pc = "fetch"
  /\ Install(emitEvent([World EXCEPT !.mon[c].pc = "done",
                                     !.mon[c].result = "fetch_failed"],
                       mon[c].f, "error"))
  /\ UNCHANGED <<nStarts, nFetchErrors>>
  /\ UNCHANGED monEnvVars

\* monitoredPRs.set, monitoringLoops.set, emit started, launch the loop.
Register(w, c, state) ==
  LET f == w.mon[c].f
  IN  emitEvent([w EXCEPT !.mon[c].obj = state, !.mon[c].pc = "done",
                          !.mon[c].result = "started", !.mon[c].task = "sleep",
                          !.prs[f] = c, !.loops[f] = c],
                f, "started")

Snapshot(state, feedback) ==
  [state EXCEPT !.lastCommentCount = feedback.comments,
                !.lastReviewCount = feedback.reviews,
                !.checksStatus = feedback.checksStatus,
                !.requestedChanges = feedback.requestedChanges,
                !.mergeable = feedback.mergeable]

\* The initial fetch returned.
InitialFetchReturns(c) ==
  /\ mon[c].pc = "fetch"
  /\ LET f == mon[c].f
     IN  IF monKind = "feedback"
           THEN Install(Register(World, c, Snapshot(NewFeedbackState, prFeedback[f])))
         ELSE IF prRemote[f] = "MERGED"
           THEN Install([World EXCEPT !.mon[c].obj = [prState |-> "MERGED"],
                                      !.mon[c].pc = "update"])
         ELSE IF prRemote[f] = "CLOSED"
           THEN Install(emitEvent([World EXCEPT !.mon[c].obj = [prState |-> "CLOSED"],
                                                !.mon[c].pc = "done",
                                                !.mon[c].result = "closed"],
                                  f, "pr_closed"))
         ELSE Install(Register(World, c, NewMergeState))
  /\ UNCHANGED <<nStarts, nFetchErrors>>
  /\ UNCHANGED monEnvVars

\* stopMonitoring(featureId) called from outside, reason 'cancelled'.  A call
\* for a feature without an entry returns at once and changes nothing.
StopMonitoring(f) ==
  /\ monitoredPRs[f] # 0
  /\ Install(stopMonitoring(World, f, "cancelled"))
  /\ UNCHANGED <<nStarts, nFetchErrors>>
  /\ UNCHANGED monEnvVars

PauseMonitoring(f) ==
  /\ monKind = "feedback"
  /\ monitoredPRs[f] # 0
  /\ mon[monitoredPRs[f]].obj.status # "paused"
  /\ mon' = [mon EXCEPT ![monitoredPRs[f]].obj.status = "paused"]
  /\ UNCHANGED <<monitoredPRs, monitoringLoops, events, quiet, featureStatus,
                 nStarts, nFetchErrors>>
  /\ UNCHANGED monEnvVars

ResumeMonitoring(f) ==
  /\ monKind = "feedback"
  /\ monitoredPRs[f] # 0
  /\ mon[monitoredPRs[f]].obj.status = "paused"
  /\ mon' = [mon EXCEPT ![monitoredPRs[f]].obj.status = "active"]
  /\ UNCHANGED <<monitoredPRs, monitoringLoops, events, quiet, featureStatus,
                 nStarts, nFetchErrors>>
  /\ UNCHANGED monEnvVars

\* The sleep of a polling task ends: leave the loop if aborted (merge: also
\* if the feature has no entry), otherwise begin a poll with the state
\* object the map holds now.  A feedback task that finds no entry or a
\* paused one goes back to sleep, which changes nothing.  AfterWake is where
\* the task stands when the code after the sleep has run to its next await.
AfterWake(c) ==
  LET state == monitoredPRs[mon[c].f]
  IN  IF mon[c].aborted THEN "ended"
      ELSE IF state = 0 THEN (IF monKind = "merge" THEN "ended" ELSE "sleep")
      ELSE IF monKind = "feedback" /\ mon[state].obj.status # "active" THEN "sleep"
      ELSE "fetch"

Wake(c) ==
  /\ mon[c].task = "sleep"
  /\ AfterWake(c) # "sleep"
  /\ mon' = [mon EXCEPT ![c].task = AfterWake(c),
                        ![c].held = IF AfterWake(c) = "fetch"
                                    THEN monitoredPRs[mon[c].f] ELSE @]
  /\ UNCHANGED <<monitoredPRs, monitoringLoops, events, quiet, featureStatus,
                 nStarts, nFetchErrors>>
  /\ UNCHANGED monEnvVars

\* The fetch of a poll threw: the loop's catch emits an error event.
PollFails(c) ==
  /\ mon[c].task = "fetch"
  /\ nFetchErrors < MaxFetchErrors
  /\ nFetchErrors' = nFetchErrors + 1
  /\ Install(LoopTop(emitEvent(World, mon[c].f, "error"), c))
  /\ UNCHANGED nStarts
  /\ UNCHANGED monEnvVars

\* A variant that reports at most one category per poll.
checkForChangesFirstOnly(w, state, feedback) ==
  LET old == w.mon[state].obj
      f == w.mon[state].f
      newFeedback == \/ feedback.comments > old.lastCommentCount
                     \/ feedback.reviews > old.lastReviewCount
      checksChanged == feedback.checksStatus # old.checksStatus
      stateChanged == \/ feedback.mergeable # old.mergeable
                      \/ feedback.requestedChanges # old.requestedChanges
      w1 == [w EXCEPT !.mon[state].obj = Snapshot(old, feedback)]
  IN  IF newFeedback THEN emitEvent(w1, f, "new_feedback")
      ELSE IF checksChanged THEN emitEvent(w1, f, "checks_changed")
      ELSE IF stateChanged THEN emitEvent(w1, f, "state_changed")
      ELSE w1

\* checkForChanges after its fetch: compare, update the state object, emit.
checkForChanges(w, state, feedback) ==
  LET old == w.mon[state].obj
      f == w.mon[state].f
      newFeedback == \/ feedback.comments > old.lastCommentCount
                     \/ feedback.reviews > old.lastReviewCount
      checksChanged == feedback.checksStatus # old.checksStatus
      stateChanged == \/ feedback.mergeable # old.mergeable
                      \/ feedback.requestedChanges # old.requestedChanges
      w1 == [w EXCEPT !.mon[state].obj = Snapshot(old, feedback)]
      w2 == IF newFeedback THEN emitEvent(w1, f, "new_feedback") ELSE w1
      w3 == IF checksChanged THEN emitEvent(w2, f, "checks_changed") ELSE w2
  IN  IF stateChanged THEN emitEvent(w3, f, "state_changed") ELSE w3

\* The fetch of a poll returned.
PollReturns(c) ==
  /\ mon[c].task = "fetch"
  /\ LET f == mon[c].f
         state == mon[c].held
         prState == prRemote[f]
         w1 == [World EXCEPT !.mon[state].obj.prState = prState]
     IN  IF monKind = "feedback"
           THEN Install(LoopTop(checkForChanges(World, state, prFeedback[f]), c))
         ELSE IF prState = mon[state].obj.prState
           THEN Install(LoopTop(World, c))
         ELSE IF prState = "MERGED"
           THEN Install([w1 EXCEPT !.mon[c].task = "update",
                                   !.mon[c].sawMerge = TRUE])
         ELSE IF prState = "CLOSED"
           THEN Install(LoopTop(stopMonitoring(emitEvent(w1, f, "pr_closed"),
                                               f, "completed"), c))
         ELSE Install(LoopTop(w1, c))
  /\ UNCHANGED <<nStarts, nFetchErrors>>
  /\ UNCHANGED monEnvVars

\* handlePRMerged: featureLoader.update resolved; pr_merged is emitted and
\* handleAutoPullAfterMerge awaits the settings.
UpdateStatusOk(c, who) ==
  /\ PcOf(c, who) = "update"
  /\ LET f == mon[c].f
     IN  Install(Goto(emitEvent([World EXCEPT !.status[f] = "verified"],
                                f, "pr_merged"),
                      c, who, "settings"))
  /\ UNCHANGED <<nStarts, nFetchErrors>>
  /\ UNCHANGED monEnvVars

\* featureLoader.update rejected: the catch of handlePRMerged emits an
\* error event and returns.
UpdateStatusFails(c, who) ==
  /\ PcOf(c, who) = "update"
  /\ Install(Return(emitEvent(World, mon[c].f, "error"), c, who, "merge_failed"))
  /\ UNCHANGED <<nStarts, nFetchErrors>>
  /\ UNCHANGED monEnvVars

\* getGlobalSettings resolved.
SettingsRead(c, who) ==
  /\ PcOf(c, who) = "settings"
  /\ LET f == mon[c].f
     IN  IF autoPull.enabled
           THEN Install(Goto(emitEvent(World, f, "pull_started"), c, who, "pull"))
         ELSE Install(Return(stopMonitoring(World, f, "merged"), c, who, "merged"))
  /\ UNCHANGED <<nStarts, nFetchErrors>>
  /\ UNCHANGED monEnvVars

\* getGlobalSettings rejected, outside the try of handleAutoPullAfterMerge.
SettingsFails(c, who) ==
  /\ PcOf(c, who) = "settings"
  /\ Install(Return(emitEvent(World, mon[c].f, "error"), c, who, "merge_failed"))
  /\ UNCHANGED <<nStarts, nFetchErrors>>
  /\ UNCHANGED monEnvVars

\* git fetch and pull succeeded.
PullOk(c, who) ==
  /\ PcOf(c, who) = "pull"
  /\ LET f == mon[c].f
     IN  IF autoPull.autoCleanupWorktrees
           THEN Install(Goto(emitEvent(World, f, "worktree_remove"), c, who, "cleanup"))
         ELSE Install(Return(stopMonitoring(emitEvent(World, f, "pull_completed"),
                                            f, "merged"),
                             c, who, "merged"))
  /\ UNCHANGED <<nStarts, nFetchErrors>>
  /\ UNCHANGED monEnvVars

\* A variant whose catch rethrows: pull_failed, then the catch of
\* handlePRMerged, and no stopMonitoring.
PullFailsRethrows(c, who) ==
  /\ PcOf(c, who) = "pull"
  /\ LET f == mon[c].f
     IN  Install(Return(emitEvent(emitEvent(World, f, "pull_failed"), f, "error"),
                        c, who, "merge_failed"))
  /\ UNCHANGED <<nStarts, nFetchErrors>>
  /\ UNCHANGED monEnvVars

\* A git command of the pull failed.
PullFails(c, who) ==
  /\ PcOf(c, who) = "pull"
  /\ LET f == mon[c].f
     IN  Install(Return(stopMonitoring(emitEvent(World, f, "pull_failed"),
                                       f, "merged"),
                        c, who, "merged"))
  /\ UNCHANGED <<nStarts, nFetchErrors>>
  /\ UNCHANGED monEnvVars

\* git worktree remove finished, successfully or not.
CleanupDone(c, who, ok) ==
  /\ PcOf(c, who) = "cleanup"
  /\ LET f == mon[c].f
         completed == IF ok THEN "pull_completed_cleaned" ELSE "pull_completed"
     IN  Install(Return(stopMonitoring(emitEvent(World, f, completed),
                                       f, "merged"),
                        c, who, "merged"))
  /\ UNCHANGED <<nStarts, nFetchErrors>>
  /\ UNCHANGED monEnvVars

\* The hosting service.
monLocalVars == <<monitoredPRs, monitoringLoops, mon, nStarts,
                  nFetchErrors, featureStatus, events, quiet, storeVars, orchVars,
                  seqVars, gateVars, archVars,
                    diffVars>>

PRMerges(f) ==
  /\ prRemote[f] = "OPEN"
  /\ prRemote' = [prRemote EXCEPT ![f] = "MERGED"]
  /\ UNCHANGED <<monKind, autoPull, prFeedback, nEnvChanges>>
  /\ UNCHANGED monLocalVars

PRCloses(f) ==
  /\ prRemote[f] = "OPEN"
  /\ prRemote' = [prRemote EXCEPT ![f] = "CLOSED"]
  /\ UNCHANGED <<monKind, autoPull, prFeedback, nEnvChanges>>
  /\ UNCHANGED monLocalVars

\* One thing happens to a pull request: a comment, a review (requesting
\* changes or not), a new checks status, a change of mergeability.
FeedbackAfter(old) ==
  { [old EXCEPT !.comments = @ + 1] }
  \cup { [old EXCEPT !.reviews = @ + 1, !.requestedChanges = @ \/ r] : r \in BOOLEAN }
  \cup { [old EXCEPT !.checksStatus = s] : s \in ChecksStatus }
  \cup { [old EXCEPT !.mergeable = ~@] }

FeedbackChanges(f) ==
  /\ monKind = "feedback"
  /\ nEnvChanges < MaxEnvChanges
  /\ \E feedback \in FeedbackAfter(prFeedback[f]) :
       /\ feedback # prFeedback[f]
       /\ prFeedback' = [prFeedback EXCEPT ![f] = feedback]
  /\ nEnvChanges' = nEnvChanges + 1
  /\ UNCHANGED <<monKind, autoPull, prRemote>>
  /\ UNCHANGED monLocalVars

\* ------------------------------------------------------------------------
\* ReviewLoopOrchestrator
\*
\* The sequential control flow that takes one feature's session through the
\* review loop.  It is the only writer of the session while it runs, so each
\* of its store calls finds the lock free; the session is kept as the record
\* the store operators build.
\* ------------------------------------------------------------------------
DefaultMaxIterations == 3

NoSession == [state |-> "none"]

ReviewVerdict == {"pass", "needs_work", "critical_issues"}

\* What a self-review can come back with: a verdict and the number of issues
\* at or above the severity threshold.
ReviewOutcomes ==
  { [verdict |-> "pass", issues |-> 0],
    [verdict |-> "needs_work", issues |-> 0],
    [verdict |-> "needs_work", issues |-> 1],
    [verdict |-> "critical_issues", issues |-> 1] }

PreReviewStates ==
  {"pending_self_review", "self_reviewing", "self_review_passed",
   "self_review_failed", "refining"}

\* A variant in which a merge is only expected while feedback is awaited.
AwaitingStates == {"awaiting_pr_feedback"}

AfterPRStates ==
  {"pr_created", "awaiting_pr_feedback", "addressing_feedback",
   "ready_for_human_review", "approved"}

Transition(f, newState) ==
  loopSession' = [loopSession EXCEPT ![f] =
                    UpdateSessionApply(@, TransitionStateUpdates(newState), now)]

\* pass, or nothing at or above the threshold, passes the self-review.
ReviewPasses(outcome) == outcome.verdict = "pass" \/ outcome.issues = 0

\* Where the loop goes when the Fixer has returned: back to self_reviewing
\* while iterations remain, to pr_created once the cap is reached.
AfterRefining(session, max) ==
  IF session.currentIteration < max THEN "self_reviewing" ELSE "pr_created"

orchOtherVars == <<maxIterations, storeVars, monVars, seqVars, gateVars, archVars,
                    diffVars>>

\* A variant that starts over whatever is there.
startLoopAnew(session, f, t) ==
  [failed |-> FALSE, session |-> NewSession(f, "pending_self_review", t)]

\* startLoop creates the session through the store, whose createSession
\* throws when the feature has one already.
startLoop(session, f, t) ==
  IF session # NoSession
    THEN [failed |-> TRUE, session |-> session]
    ELSE [failed |-> FALSE, session |-> NewSession(f, "pending_self_review", t)]

\* A startLoop that fails changes nothing and is not a step.
StartLoop(f) ==
  /\ ~startLoop(loopSession[f], f, now).failed
  /\ loopSession' = [loopSession EXCEPT ![f] = startLoop(@, f, now).session]
  /\ UNCHANGED <<refinings, overridden>>
  /\ UNCHANGED orchOtherVars

EnterSelfReview(f) ==
  /\ loopSession[f].state = "pending_self_review"
  /\ Transition(f, "self_reviewing")
  /\ UNCHANGED <<refinings, overridden>>
  /\ UNCHANGED orchOtherVars

\* The Reviewer returned: the result is recorded as the next iteration and
\* the verdict decides between self_review_passed and self_review_failed.
ReviewReturns(f, outcome) ==
  /\ loopSession[f].state = "self_reviewing"
  /\ Len(loopSession[f].iterations) < MaxReviews
  /\ LET result == [verdict |-> outcome.verdict, issues |-> outcome.issues,
                    iteration |-> loopSession[f].currentIteration + 1,
                    summary |-> 0]
         recorded == AddReviewResultApply(loopSession[f], result, now)
         newState == IF ReviewPasses(outcome) THEN "self_review_passed"
                     ELSE "self_review_failed"
     IN  loopSession' = [loopSession EXCEPT ![f] =
                           UpdateSessionApply(recorded, TransitionStateUpdates(newState), now)]
  /\ UNCHANGED <<refinings, overridden>>
  /\ UNCHANGED orchOtherVars

CreatePR(f) ==
  /\ loopSession[f].state = "self_review_passed"
  /\ \E n \in PRNumbers :
       loopSession' = [loopSession EXCEPT ![f] =
                         UpdateSessionApply(@, LinkPRUpdates(n), now)]
  /\ UNCHANGED <<refinings, overridden>>
  /\ UNCHANGED orchOtherVars

EnterRefining(f) ==
  /\ loopSession[f].state = "self_review_failed"
  /\ refinings[f] < MaxRefinings
  /\ Transition(f, "refining")
  /\ refinings' = [refinings EXCEPT ![f] = @ + 1]
  /\ UNCHANGED overridden
  /\ UNCHANGED orchOtherVars

\* The Fixer returned, having addressed every blocking issue or not.
FixerReturns(f, allAddressed) ==
  /\ loopSession[f].state = "refining"
  /\ LET next == AfterRefining(loopSession[f], maxIterations)
     IN  IF next = "pr_created"
           THEN \E n \in PRNumbers :
                  loopSession' = [loopSession EXCEPT ![f] =
                                    UpdateSessionApply(@, LinkPRUpdates(n), now)]
         ELSE Transition(f, next)
  /\ UNCHANGED <<refinings, overridden>>
  /\ UNCHANGED orchOtherVars

AwaitFeedback(f) ==
  /\ loopSession[f].state = "pr_created"
  /\ Transition(f, "awaiting_pr_feedback")
  /\ UNCHANGED <<refinings, overridden>>
  /\ UNCHANGED orchOtherVars

NewFeedback(f) ==
  /\ loopSession[f].state = "awaiting_pr_feedback"
  /\ Transition(f, "addressing_feedback")
  /\ UNCHANGED <<refinings, overridden>>
  /\ UNCHANGED orchOtherVars

FeedbackAddressed(f) ==
  /\ loopSession[f].state = "addressing_feedback"
  /\ Transition(f, "awaiting_pr_feedback")
  /\ UNCHANGED <<refinings, overridden>>
  /\ UNCHANGED orchOtherVars

Approve(f) ==
  /\ loopSession[f].state = "ready_for_human_review"
  /\ loopSession' = [loopSession EXCEPT ![f] =
                       UpdateSessionApply(@, CompleteSessionUpdates("approved", now), now)]
  /\ UNCHANGED <<refinings, overridden>>
  /\ UNCHANGED orchOtherVars

\* The merge monitor reported the pull request merged.
Merged(f) ==
  /\ loopSession[f].state \in AfterPRStates
  /\ loopSession' = [loopSession EXCEPT ![f] =
                       UpdateSessionApply(@, CompleteSessionUpdates("merged", now), now)]
  /\ UNCHANGED <<refinings, overridden>>
  /\ UNCHANGED orchOtherVars

\* Manual overrides.
SkipToPR(f) ==
  /\ loopSession[f].state \in PreReviewStates
  /\ \E n \in PRNumbers :
       loopSession' = [loopSession EXCEPT ![f] =
                         UpdateSessionApply(@, LinkPRUpdates(n), now)]
  /\ overridden' = [overridden EXCEPT ![f] = TRUE]
  /\ UNCHANGED refinings
  /\ UNCHANGED orchOtherVars

TriggerRefinement(f) ==
  /\ loopSession[f].state \in (PreReviewStates \cup AfterPRStates) \ {"refining"}
  /\ Transition(f, "refining")
  /\ overridden' = [overridden EXCEPT ![f] = TRUE]
  /\ UNCHANGED refinings
  /\ UNCHANGED orchOtherVars

MarkReadyForHuman(f) ==
  /\ loopSession[f].state \in (PreReviewStates \cup AfterPRStates) \ {"ready_for_human_review"}
  /\ Transition(f, "ready_for_human_review")
  /\ overridden' = [overridden EXCEPT ![f] = TRUE]
  /\ UNCHANGED refinings
  /\ UNCHANGED orchOtherVars

\* The orchestrator before any loop was started, with the default cap.
OrchIdle(max) ==
  /\ maxIterations = max
  /\ loopSession = [f \in LoopFeatures |-> NoSession]
  /\ refinings = [f \in LoopFeatures |-> 0]
  /\ overridden = [f \in LoopFeatures |-> FALSE]

\* The monitor after construction: nothing monitored, nothing emitted.
MonitorIdle(kind, settings) ==
  /\ monKind = kind
  /\ autoPull = settings
  /\ monitoredPRs = [f \in Features |-> 0]
  /\ monitoringLoops = [f \in Features |-> 0]
  /\ mon = [c \in StartIds |-> NoStart]
  /\ nStarts = 0
  /\ nFetchErrors = 0
  /\ nEnvChanges = 0
  /\ prRemote = [f \in Features |-> "OPEN"]
  /\ prFeedback = [f \in Features |-> NoFeedback]
  /\ featureStatus = [f \in Features |-> "waiting_approval"]
  /\ events = [f \in Features |-> [t \in EventTypes |-> 0]]
  /\ quiet = [f \in Features |-> FALSE]

\* ------------------------------------------------------------------------
\* Specification of the session store
\* ------------------------------------------------------------------------
\* ------------------------------------------------------------------------
\* Quality gate evaluator and the refinement check
\* ------------------------------------------------------------------------
\* const SEVERITY_ORDER = ['critical', 'high', 'medium', 'low', 'suggestion']
SEVERITY_ORDER == <<"critical", "high", "medium", "low", "suggestion">>

\* Array.prototype.indexOf on SEVERITY_ORDER (every severity is in it).
IndexOf(seq, x) == CHOOSE i \in DOMAIN seq : seq[i] = x

\* A variant with a strict comparison.
isSeverityAbove(severity, threshold) ==
  IndexOf(SEVERITY_ORDER, severity) < IndexOf(SEVERITY_ORDER, threshold)

isSeverityAtOrAbove(severity, threshold) ==
  IndexOf(SEVERITY_ORDER, severity) <= IndexOf(SEVERITY_ORDER, threshold)

\* DEFAULT_QUALITY_GATE_THRESHOLDS
MinTestCoverage == 80
MaxComplexity == 10
MaxDuplication == 5

\* An optional metric: undefined, or a number.
Undefined == [defined |-> FALSE, value |-> 0]
Num(n) == [defined |-> TRUE, value |-> n]

\* complexityByFunction: undefined, or the complexities of the functions.
NoComplexity == [defined |-> FALSE, values |-> <<>>]
Complexities(vs) == [defined |-> TRUE, values |-> vs]

countIssuesAtOrAboveSeverity(issues, threshold) ==
  LET Keep(issue) == isSeverityAtOrAbove(issue.severity, threshold)
  IN  Len(SelectSeq(issues, Keep))

getIssuesInCategory(issues, category) ==
  LET Keep(issue) == issue.category = category
  IN  SelectSeq(issues, Keep)

\* Each check is kept by its status.
checkSeverityThreshold(issues, severityThreshold) ==
  IF countIssuesAtOrAboveSeverity(issues, severityThreshold) = 0
    THEN "passed" ELSE "failed"

checkRequiredCategories(issues, requiredCategories) ==
  IF requiredCategories = {} THEN "skipped"
  ELSE IF \A c \in requiredCategories : Len(getIssuesInCategory(issues, c)) = 0
    THEN "passed" ELSE "failed"

checkTestCoverage(testCoverage, minTestCoverage) ==
  IF ~testCoverage.defined THEN "skipped"
  ELSE IF testCoverage.value >= minTestCoverage THEN "passed" ELSE "failed"

checkComplexity(complexityByFunction, maxComplexity) ==
  IF ~complexityByFunction.defined \/ Len(complexityByFunction.values) = 0
    THEN "skipped"
  ELSE IF \A i \in DOMAIN complexityByFunction.values :
            complexityByFunction.values[i] <= maxComplexity
    THEN "passed" ELSE "failed"

checkDuplication(duplicationPercentage, maxDuplication) ==
  IF ~duplicationPercentage.defined THEN "skipped"
  ELSE IF duplicationPercentage.value <= maxDuplication THEN "passed" ELSE "failed"

\* A variant whose verdict blocks only when the severity check failed.
VerdictOfSeverityOnly(checks) ==
  IF checks[1] = "failed"
    THEN [verdict |-> "failed", shouldBlockPR |-> TRUE, checks |-> checks]
    ELSE [verdict |-> "passed", shouldBlockPR |-> FALSE, checks |-> checks]

\* Determine verdict
VerdictOf(checks) ==
  LET failedChecks == {i \in DOMAIN checks : checks[i] = "failed"}
      passedChecks == {i \in DOMAIN checks : checks[i] = "passed"}
  IN  IF Cardinality(failedChecks) > 0
        THEN [verdict |-> "failed", shouldBlockPR |-> TRUE, checks |-> checks]
      ELSE IF Cardinality(passedChecks) = 0
        THEN [verdict |-> "warning", shouldBlockPR |-> FALSE, checks |-> checks]
      ELSE [verdict |-> "passed", shouldBlockPR |-> FALSE, checks |-> checks]

evaluateQualityGate(input) ==
  VerdictOf(<<checkSeverityThreshold(input.issues, input.severityThreshold),
              checkRequiredCategories(input.issues, input.requiredCategories),
              checkTestCoverage(input.testCoverage, input.minTestCoverage),
              checkComplexity(input.complexityByFunction, input.maxComplexity),
              checkDuplication(input.duplicationPercentage, input.maxDuplication)>>)

getBlockingIssues(issues, severityThreshold, requiredCategories) ==
  LET Keep(issue) ==
        IF isSeverityAtOrAbove(issue.severity, severityThreshold) THEN TRUE
        ELSE issue.category \in requiredCategories
  IN  SelectSeq(issues, Keep)

\* RefinementService.evaluateRefinement
evaluateRefinement(originalIssues, addressedIds, severityThreshold) ==
  LET Blocks(issue) == isSeverityAtOrAbove(issue.severity, severityThreshold)
      blockingIssues == SelectSeq(originalIssues, Blocks)
      Open(issue) == issue.id \notin addressedIds
      unaddressedBlockingIssues == SelectSeq(blockingIssues, Open)
  IN  Len(unaddressedBlockingIssues) = 0

\* Inputs: up to MaxIssues issues, the i-th with id i.
IssueKinds ==
  { [severity |-> "critical", category |-> "logic"],
    [severity |-> "low", category |-> "security"],
    [severity |-> "low", category |-> "style"] }

IssueLists ==
  UNION { { [i \in 1..n |-> [id |-> i, severity |-> ks[i].severity,
                             category |-> ks[i].category]]
            : ks \in [1..n -> IssueKinds] }
          : n \in 0..MaxIssues }

GateInputs ==
  [ issues : IssueLists,
    addressedIds : SUBSET (1..MaxIssues),
    severityThreshold : {"critical", "medium"},
    requiredCategories : {{}, {"security"}},
    minTestCoverage : {MinTestCoverage},
    maxComplexity : {MaxComplexity},
    maxDuplication : {MaxDuplication},
    testCoverage : {Undefined, Num(MinTestCoverage - 1), Num(MinTestCoverage)},
    complexityByFunction : {NoComplexity, Complexities(<<>>),
                            Complexities(<<MaxComplexity>>),
                            Complexities(<<MaxComplexity, MaxComplexity + 1>>)},
    duplicationPercentage : {Undefined, Num(MaxDuplication), Num(MaxDuplication + 1)} ]

NoGateInput ==
  [issues |-> <<>>, addressedIds |-> {}, severityThreshold |-> "critical",
   requiredCategories |-> {}, minTestCoverage |-> MinTestCoverage,
   maxComplexity |-> MaxComplexity, maxDuplication |-> MaxDuplication,
   testCoverage |-> Undefined, complexityByFunction |-> NoComplexity,
   duplicationPercentage |-> Undefined]

NoGateOut == [verdict |-> "none", shouldBlockPR |-> FALSE, checks |-> <<>>]

gateOtherVars == <<gateInput, storeVars, monVars, orchVars, seqVars, archVars,
                   diffVars>>

EvaluateQualityGate ==
  /\ gateOut = NoGateOut
  /\ gateOut' = evaluateQualityGate(gateInput)
  /\ UNCHANGED refineOut
  /\ UNCHANGED gateOtherVars

EvaluateRefinement ==
  /\ refineOut = "none"
  /\ refineOut' = IF evaluateRefinement(gateInput.issues, gateInput.addressedIds,
                                        gateInput.severityThreshold)
                    THEN "true" ELSE "false"
  /\ UNCHANGED gateOut
  /\ UNCHANGED gateOtherVars

\* ------------------------------------------------------------------------
\* archiveOldSessions
\*
\* The call takes no session lock.  It lists the completed sessions, and for
\* each one older than the cutoff reads the session file, writes the archive
\* copy with writeFileAtomic and unlinks the session file; every await is a
\* step of its own.
\* ------------------------------------------------------------------------
NoArchive == [pc |-> "idle", todo |-> <<>>, content |-> NoFile, archivedCount |-> 0]

archFrame == <<now, sessionLocks, call, nCalls, crashes, readLog, monVars,
               orchVars, seqVars, gateVars, diffVars>>

\* The sessions getCompletedSessions returns, as files read.
CompletedSessions ==
  {f \in Features :
     LET session == ReadSessionInternal(fs[SessionPath(f)])
     IN  /\ session.kind = "json"
         /\ session.data.state \in {"approved", "merged"}}

\* The features of a set in the order the loop visits them.
RECURSIVE InOrder(_)
InOrder(S) ==
  IF S = {} THEN <<>>
  ELSE LET f == CHOOSE x \in S : \A y \in S : x <= y
       IN  <<f>> \o InOrder(S \ {f})

\* The loop goes on to the next session, or returns archivedCount.
NextSessionToArchive(a) ==
  LET rest == Tail(a.todo)
  IN  [a EXCEPT !.todo = rest, !.content = NoFile,
                !.pc = IF rest = <<>> THEN "done" ELSE "read"]

\* archiveOldSessions(projectPath, olderThanDays) up to the loop: whether a
\* completedAt lies before the cutoff depends on olderThanDays and the wall
\* clock, so any set of completed sessions with a completedAt may be old.
ArchiveOldSessions ==
  /\ archive.pc = "idle"
  /\ \E old \in SUBSET CompletedSessions :
       /\ \A f \in old : fs[SessionPath(f)].data.completedAt # 0
       /\ archive' = [NoArchive EXCEPT !.todo = InOrder(old),
                                       !.pc = IF old = {} THEN "done" ELSE "read"]
  /\ UNCHANGED fs
  /\ UNCHANGED archFrame

\* secureFs.readFile(sourcePath) and JSON.parse; a throw skips the session.
ArchiveRead ==
  /\ archive.pc = "read"
  /\ LET content == fs[SessionPath(Head(archive.todo))]
     IN  IF content.kind = "json"
           THEN archive' = [archive EXCEPT !.content = content, !.pc = "writeTmp"]
           ELSE archive' = NextSessionToArchive(archive)
  /\ UNCHANGED fs
  /\ UNCHANGED archFrame

\* writeFileAtomic(archivePath, ...): the temp file is written.
ArchiveWriteTemp ==
  /\ archive.pc = "writeTmp"
  /\ fs' = [fs EXCEPT ![ArchiveTempPath(Head(archive.todo))] = archive.content]
  /\ archive' = [archive EXCEPT !.pc = "rename"]
  /\ UNCHANGED archFrame

\* writeFileAtomic(archivePath, ...): the temp file is renamed over the
\* archive path.
ArchiveRename ==
  /\ archive.pc = "rename"
  /\ LET f == Head(archive.todo)
     IN  fs' = RenameOver(ArchiveTempPath(f), ArchivePath(f))
  /\ archive' = [archive EXCEPT !.pc = "unlink"]
  /\ UNCHANGED archFrame

\* writeFileAtomic throws: the temp file is unlinked and the session is
\* skipped.
ArchiveWriteFails ==
  /\ archive.pc \in {"writeTmp", "rename"}
  /\ fs' = [fs EXCEPT ![ArchiveTempPath(Head(archive.todo))] = NoFile]
  /\ archive' = NextSessionToArchive(archive)
  /\ UNCHANGED archFrame

\* secureFs.unlink(sourcePath); a missing file throws and is not counted.
ArchiveUnlink ==
  /\ archive.pc = "unlink"
  /\ LET p == SessionPath(Head(archive.todo))
     IN  /\ fs' = [fs EXCEPT ![p] = NoFile]
         /\ archive' =
              IF fs[p].kind = "none" THEN NextSessionToArchive(archive)
              ELSE NextSessionToArchive(
                     [archive EXCEPT !.archivedCount = archive.archivedCount + 1])
  /\ UNCHANGED archFrame

ArchiveIdle == archive = NoArchive

\* ------------------------------------------------------------------------
\* parseDiff
\*
\* A line of the diff is a sequence of characters; the two lines whose text
\* the parser only recognises as a whole are one token each.
\* ------------------------------------------------------------------------
GitHeaderLine == <<"diff --git a/f b/f">>
HunkHeaderLine == <<"@@ -1 +1 @@">>
OldFileLine == <<"-", "-", "-", " ", "a/f">>
NewFileLine == <<"+", "+", "+", " ", "b/f">>

StartsWith(line, prefix) ==
  Len(line) >= Len(prefix) /\ SubSeq(line, 1, Len(prefix)) = prefix

\* DIFF_FILE_HEADER, DIFF_HUNK_HEADER
MatchesFileHeader(line) == line = GitHeaderLine
MatchesHunkHeader(line) == line = HunkHeaderLine

\* DIFF_OLD_FILE = /^--- (?:a\/)?(.+)$/, DIFF_NEW_FILE = /^\+\+\+ (?:b\/)?(.+)$/
MatchesOldFile(line) == StartsWith(line, <<"-", "-", "-", " ">>) /\ Len(line) > 4
MatchesNewFile(line) == StartsWith(line, <<"+", "+", "+", " ">>) /\ Len(line) > 4

\* The --- and +++ tests of the loop, which do not look at currentHunk.
IsHeaderOfFile(line) == MatchesOldFile(line) \/ MatchesNewFile(line)

\* The parser's locals: currentFile (its hunks), currentHunk (the types of
\* its lines) and the files pushed so far.
NoParse == [inFile |-> FALSE, inHunk |-> FALSE, files |-> <<>>, hunks |-> <<>>,
            lines |-> <<>>]

\* if (currentHunk && currentHunk.lines.length > 0) currentFile.hunks.push(currentHunk)
PushHunk(p) ==
  IF p.inHunk /\ p.lines # <<>> THEN Append(p.hunks, p.lines) ELSE p.hunks

\* One iteration of the loop over the lines.  The mode, rename, similarity
\* and binary tests come before the --- test and match no line that starts
\* with one of the characters used here.
ParseLine(p, line) ==
  IF MatchesFileHeader(line)
    THEN [inFile |-> TRUE, inHunk |-> FALSE,
          files |-> IF p.inFile THEN Append(p.files, PushHunk(p)) ELSE p.files,
          hunks |-> <<>>, lines |-> <<>>]
  ELSE IF ~p.inFile THEN p
  ELSE IF IsHeaderOfFile(line) THEN p
  ELSE IF MatchesHunkHeader(line)
    THEN [p EXCEPT !.hunks = PushHunk(p), !.inHunk = TRUE, !.lines = <<>>]
  ELSE IF ~p.inHunk THEN p
  ELSE IF StartsWith(line, <<"+">>) THEN [p EXCEPT !.lines = Append(@, "added")]
  ELSE IF StartsWith(line, <<"-">>) THEN [p EXCEPT !.lines = Append(@, "removed")]
  ELSE IF StartsWith(line, <<" ">>) \/ line = <<>>
    THEN [p EXCEPT !.lines = Append(@, "context")]
  ELSE p

RECURSIVE ParseLines(_, _)
ParseLines(p, lines) ==
  IF lines = <<>> THEN p ELSE ParseLines(ParseLine(p, Head(lines)), Tail(lines))

RECURSIVE Flatten(_)
Flatten(seqs) == IF seqs = <<>> THEN <<>> ELSE Head(seqs) \o Flatten(Tail(seqs))

calculateSummary(files) ==
  LET types == Flatten(Flatten(files))
      IsAdded(t) == t = "added"
      IsRemoved(t) == t = "removed"
  IN  [filesChanged |-> Len(files),
       linesAdded |-> Len(SelectSeq(types, IsAdded)),
       linesRemoved |-> Len(SelectSeq(types, IsRemoved))]

\* parseDiff(diffContent).summary, diffContent split at the newlines.
parseDiff(lines) ==
  LET p == ParseLines(NoParse, lines)
      files == IF p.inFile THEN Append(p.files, PushHunk(p)) ELSE p.files
  IN  calculateSummary(files)

\* The diffs handed in: one file; each content line has its sign, its text
\* and whether a new hunk starts with it (the first line always starts one).
DiffSigns == {"+", "-", " "}
DiffTexts == { <<"x">>, <<"-", "-", " ", "x">>, <<"+", "+", " ", "x">> }
ContentLines == [sign : DiffSigns, text : DiffTexts, newHunk : BOOLEAN]
Diffs ==
  UNION { {d \in [1..n -> ContentLines] : d[1].newHunk} : n \in 1..MaxDiffLines }

\* The text of the diff, line by line; the newline at its end leaves an
\* empty last line.
RECURSIVE RenderContent(_)
RenderContent(d) ==
  IF d = <<>> THEN <<>>
  ELSE (IF Head(d).newHunk THEN <<HunkHeaderLine>> ELSE <<>>)
         \o << <<Head(d).sign>> \o Head(d).text >> \o RenderContent(Tail(d))

Render(d) == <<GitHeaderLine, OldFileLine, NewFileLine>> \o RenderContent(d) \o << <<>> >>

NoDiff == <<>>
NoSummary == [filesChanged |-> 0, linesAdded |-> 0, linesRemoved |-> 0, parsed |-> FALSE]

diffOtherVars == <<diffInput, storeVars, monVars, orchVars, seqVars, gateVars, archVars>>

ParseDiff ==
  /\ ~diffOut.parsed
  /\ diffOut' = [parsed |-> TRUE] @@ parseDiff(Render(diffInput))
  /\ UNCHANGED diffOtherVars

DiffIdle ==
  /\ diffInput = NoDiff
  /\ diffOut = NoSummary

SessionIdle == lastOp = NoOp

GateIdle ==
  /\ gateInput = NoGateInput
  /\ gateOut = NoGateOut
  /\ refineOut = "none"

StoreIdle ==
  /\ now = 1
  /\ fs = [p \in Paths |-> NoFile]
  /\ sessionLocks = [f \in Features |-> 0]
  /\ call = [i \in CallIds |-> NoCall]
  /\ nCalls = 0
  /\ crashes = 0
  /\ readLog = NoRead

InitStore ==
  /\ StoreIdle
  /\ MonitorIdle("merge", [enabled |-> FALSE, autoCleanupWorktrees |-> FALSE])
  /\ OrchIdle(DefaultMaxIterations)
  /\ SessionIdle
  /\ GateIdle
  /\ ArchiveIdle
  /\ DiffIdle

NextStore ==
  \/ \E f \in Features, s \in InitialStates : CreateSession(f, s)
  \/ \E f \in Features, u \in DirectUpdates : UpdateSession(f, u)
  \/ \E f \in Features, s \in TransitionTargets : TransitionState(f, s)
  \/ \E f \in Features, s \in FinalStates : CompleteSession(f, s)
  \/ \E f \in Features, n \in PRNumbers : LinkPR(f, n)
  \/ \E f \in Features, v \in Verdicts, k \in ResultIterations : AddReviewResult(f, v, k)
  \/ \E f \in Features : DeleteSession(f)
  \/ \E i \in CallIds : BeginWrite(i)
  \/ \E i \in CallIds : WriteTempOpen(i)
  \/ \E i \in CallIds : WriteTempDone(i)
  \/ \E i \in CallIds : Commit(i)
  \/ \E i \in CallIds : WriteFails(i)
  \/ \E i \in CallIds : Unlink(i)
  \/ \E f \in Features : ReadSession(f)
  \/ Crash

SpecStore == InitStore /\ [][NextStore]_vars

\* ------------------------------------------------------------------------
\* Specification of the monitors
\* ------------------------------------------------------------------------
\* Only the merge monitor reads settings.autoPull.
InitMonitor ==
  /\ StoreIdle
  /\ OrchIdle(DefaultMaxIterations)
  /\ SessionIdle
  /\ GateIdle
  /\ ArchiveIdle
  /\ DiffIdle
  /\ \E kind \in MonitorKinds, settings \in AutoPullSettings :
       /\ kind = "feedback" => ~settings.enabled
       /\ MonitorIdle(kind, settings)

NextMonitor ==
  \/ \E f \in Features : StartMonitoring(f)
  \/ \E c \in StartIds : GhUnavailable(c)
  \/ \E c \in StartIds : InitialFetchFails(c)
  \/ \E c \in StartIds : InitialFetchReturns(c)
  \/ \E f \in Features : StopMonitoring(f)
  \/ \E f \in Features : PauseMonitoring(f)
  \/ \E f \in Features : ResumeMonitoring(f)
  \/ \E c \in StartIds : Wake(c)
  \/ \E c \in StartIds : PollFails(c)
  \/ \E c \in StartIds : PollReturns(c)
  \/ \E c \in StartIds, who \in Callers : UpdateStatusOk(c, who)
  \/ \E c \in StartIds, who \in Callers : UpdateStatusFails(c, who)
  \/ \E c \in StartIds, who \in Callers : SettingsRead(c, who)
  \/ \E c \in StartIds, who \in Callers : SettingsFails(c, who)
  \/ \E c \in StartIds, who \in Callers : PullOk(c, who)
  \/ \E c \in StartIds, who \in Callers : PullFails(c, who)
  \/ \E c \in StartIds, who \in Callers, ok \in BOOLEAN : CleanupDone(c, who, ok)
  \/ \E f \in Features : PRMerges(f)
  \/ \E f \in Features : PRCloses(f)
  \/ \E f \in Features : FeedbackChanges(f)

SpecMonitor == InitMonitor /\ [][NextMonitor]_vars

\* ------------------------------------------------------------------------
\* Specification of the orchestrator
\* ------------------------------------------------------------------------
InitOrch ==
  /\ StoreIdle
  /\ MonitorIdle("merge", [enabled |-> FALSE, autoCleanupWorktrees |-> FALSE])
  /\ \E max \in 1..DefaultMaxIterations : OrchIdle(max)
  /\ SessionIdle
  /\ GateIdle
  /\ ArchiveIdle
  /\ DiffIdle

NextOrch ==
  \/ \E f \in LoopFeatures : StartLoop(f)
  \/ \E f \in LoopFeatures : EnterSelfReview(f)
  \/ \E f \in LoopFeatures, o \in ReviewOutcomes : ReviewReturns(f, o)
  \/ \E f \in LoopFeatures : CreatePR(f)
  \/ \E f \in LoopFeatures : EnterRefining(f)
  \/ \E f \in LoopFeatures, a \in BOOLEAN : FixerReturns(f, a)
  \/ \E f \in LoopFeatures : AwaitFeedback(f)
  \/ \E f \in LoopFeatures : NewFeedback(f)
  \/ \E f \in LoopFeatures : FeedbackAddressed(f)
  \/ \E f \in LoopFeatures : Approve(f)
  \/ \E f \in LoopFeatures : Merged(f)
  \/ \E f \in LoopFeatures : SkipToPR(f)
  \/ \E f \in LoopFeatures : TriggerRefinement(f)
  \/ \E f \in LoopFeatures : MarkReadyForHuman(f)

SpecOrch == InitOrch /\ [][NextOrch]_vars

\* ------------------------------------------------------------------------
\* Specification of the store under one sequential client
\* ------------------------------------------------------------------------
InitSession ==
  /\ StoreIdle
  /\ MonitorIdle("merge", [enabled |-> FALSE, autoCleanupWorktrees |-> FALSE])
  /\ OrchIdle(DefaultMaxIterations)
  /\ SessionIdle
  /\ GateIdle
  /\ ArchiveIdle
  /\ DiffIdle

NextSession ==
  \/ \E f \in SessionFeatures, s \in InitialStates : createSession(f, s)
  \/ \E f \in SessionFeatures, u \in SessionUpdates : updateSession(f, u)
  \/ \E f \in SessionFeatures, s \in SessionTargets : transitionState(f, s)
  \/ \E f \in SessionFeatures, s \in FinalStates : completeSession(f, s)
  \/ \E f \in SessionFeatures, n \in PRNumbers : linkPR(f, n)
  \/ \E f \in SessionFeatures, r \in SessionResults : addReviewResult(f, r)
  \/ \E f \in SessionFeatures : deleteSession(f)
  \/ \E f \in SessionFeatures : readSession(f)

SpecSession == InitSession /\ [][NextSession]_vars

\* ------------------------------------------------------------------------
\* Specification of the quality gate and the refinement check
\* ------------------------------------------------------------------------
InitGate ==
  /\ StoreIdle
  /\ MonitorIdle("merge", [enabled |-> FALSE, autoCleanupWorktrees |-> FALSE])
  /\ OrchIdle(DefaultMaxIterations)
  /\ SessionIdle
  /\ ArchiveIdle
  /\ DiffIdle
  /\ gateInput \in GateInputs
  /\ gateOut = NoGateOut
  /\ refineOut = "none"

NextGate ==
  \/ EvaluateQualityGate
  \/ EvaluateRefinement

SpecGate == InitGate /\ [][NextGate]_vars

\* ------------------------------------------------------------------------
\* Specification of archiveOldSessions beside the store
\*
\* Sessions are created, completed and updated by the store's calls while
\* one archiveOldSessions call runs.
\* ------------------------------------------------------------------------
InitArchive ==
  /\ StoreIdle
  /\ MonitorIdle("merge", [enabled |-> FALSE, autoCleanupWorktrees |-> FALSE])
  /\ OrchIdle(DefaultMaxIterations)
  /\ SessionIdle
  /\ GateIdle
  /\ ArchiveIdle
  /\ DiffIdle

NextArchive ==
  \/ \E f \in Features, s \in InitialStates : CreateSession(f, s)
  \/ \E f \in Features, s \in FinalStates : CompleteSession(f, s)
  \/ \E f \in Features, n \in PRNumbers : LinkPR(f, n)
  \/ \E i \in CallIds : BeginWrite(i)
  \/ \E i \in CallIds : WriteTempOpen(i)
  \/ \E i \in CallIds : WriteTempDone(i)
  \/ \E i \in CallIds : Commit(i)
  \/ ArchiveOldSessions
  \/ ArchiveRead
  \/ ArchiveWriteTemp
  \/ ArchiveRename
  \/ ArchiveWriteFails
  \/ ArchiveUnlink

SpecArchive == InitArchive /\ [][NextArchive]_vars

\* ------------------------------------------------------------------------
\* Specification of parseDiff
\* ------------------------------------------------------------------------
InitDiff ==
  /\ StoreIdle
  /\ MonitorIdle("merge", [enabled |-> FALSE, autoCleanupWorktrees |-> FALSE])
  /\ OrchIdle(DefaultMaxIterations)
  /\ SessionIdle
  /\ GateIdle
  /\ ArchiveIdle
  /\ diffInput \in Diffs
  /\ diffOut = NoSummary

NextDiff ==
  \/ ParseDiff

SpecDiff == InitDiff /\ [][NextDiff]_vars

\* ------------------------------------------------------------------------
\* Properties of the session store
\* ------------------------------------------------------------------------
UpdatableFields == SessionFields \ {"featureId", "startedAt", "lastUpdatedAt"}

\* j is an update issued while the update i on the same feature was pending.
ConcurrentUpdates(i, j) ==
  /\ i \in Issued /\ j \in Issued
  /\ call[i].op = "update" /\ call[j].op = "update"
  /\ call[j].prev = i

LaterCommit(j) ==
  \E k \in Issued : k > j /\ call[k].f = call[j].f /\ call[k].result = "ok"

\* C1: of two concurrent updateSession calls on one feature that both
\* succeed, the second reads the session the first committed, the session
\* it stores carries the fields of both (the second call's value where both
\* set a field), and that session is the stored one until a later call
\* commits.
C1_SecondUpdateBuildsOnFirst ==
  \A i, j \in CallIds :
    (ConcurrentUpdates(i, j) /\ call[i].result = "ok" /\ call[j].result = "ok") =>
      /\ call[j].base = call[i].out
      /\ \A k \in UpdatableFields :
           call[j].out.data[k] =
             IF k \in DOMAIN call[j].upd THEN call[j].upd[k]
             ELSE IF k \in DOMAIN call[i].upd THEN call[i].upd[k]
             ELSE call[i].base.data[k]
      /\ (~LaterCommit(j) => fs[SessionPath(call[j].f)] = call[j].out)

C1_Witness ==
  \E i, j \in CallIds :
    /\ ConcurrentUpdates(i, j)
    /\ call[i].result = "ok" /\ call[j].result = "ok"
    /\ "state" \in DOMAIN call[i].upd
    /\ "state" \notin DOMAIN call[j].upd
    /\ fs[SessionPath(call[j].f)] = call[j].out
    /\ call[j].out.data.state = call[i].upd.state

\* A call is between its read of the session file and its write of it.
InCriticalSection(i) ==
  i \in Issued /\ call[i].pc \in {"writeTmp", "writing", "rename"}

\* C2: at most one mutating call per feature is between its read and its
\* write of the session file.
C2_OneWriterPerFeature ==
  \A f \in Features :
    Cardinality({i \in CallIds : InCriticalSection(i) /\ call[i].f = f}) <= 1

C2_Witness ==
  \E i, j \in CallIds :
    /\ InCriticalSection(i)
    /\ j \in Issued /\ call[j].pc = "waiting" /\ call[j].prev = i

\* C3: a readSession returns the complete session last committed or the
\* complete session a write in flight is about to commit, also after a
\* crash in the middle of a write.
C3_ReadersSeeWholeSessions ==
  readLog.f # 0 =>
    readLog.got \in {LastCommitted(readLog.f)} \cup InFlight(readLog.f)

C3_Witness ==
  /\ readLog.f # 0
  /\ readLog.got.kind = "json"
  /\ \E i \in Issued :
       /\ call[i].f = readLog.f
       /\ call[i].pc = "lost"
       /\ fs[TempPath(i)].kind = "partial"

\* The session file the calls of f produce when run one after the other in
\* issue order (only the calls that succeeded change the file).
RECURSIVE Replay(_, _)
Replay(f, n) ==
  IF n = 0 THEN NoFile
  ELSE LET before == Replay(f, n - 1)
           c == call[n]
           t == c.out.data.lastUpdatedAt
       IN  IF c.f # f \/ c.result # "ok" THEN before
           ELSE CASE c.op = "delete" -> NoFile
                  [] c.op = "create" -> Json(NewSession(f, c.st, t))
                  [] before.kind # "json" -> [kind |-> "impossible"]
                  [] c.op = "update" -> Json(UpdateSessionApply(before.data, c.upd, t))
                  [] OTHER -> Json(AddReviewResultApply(before.data, c.res, t))

OkCalls(f, op) ==
  {i \in Issued : call[i].f = f /\ call[i].op = op /\ call[i].result = "ok"}

RECURSIVE Ascending(_)
Ascending(S) ==
  IF S = {} THEN <<>>
  ELSE LET m == CHOOSE x \in S : \A y \in S : x <= y
       IN  <<m>> \o Ascending(S \ {m})

LastOf(S) == CHOOSE x \in S : \A y \in S : y <= x

\* C9: the stored session is the one a sequential run of the calls in issue
\* order leaves; as long as the session was not deleted its iterations are
\* exactly the results of the successful addReviewResult calls, once each
\* and in issue order, and its state is the one the last successful state
\* update set.
C9_AtomicAppend ==
  \A f \in Features :
    /\ fs[SessionPath(f)] = Replay(f, nCalls)
    /\ (OkCalls(f, "delete") = {} /\ fs[SessionPath(f)].kind = "json") =>
         LET s == fs[SessionPath(f)].data
             setters == {i \in OkCalls(f, "update") : "state" \in DOMAIN call[i].upd}
         IN  /\ [k \in 1..Len(s.iterations) |-> s.iterations[k].summary]
                  = Ascending(OkCalls(f, "add"))
             /\ setters # {} => s.state = call[LastOf(setters)].upd.state

C9_Witness ==
  \E i, j \in CallIds :
    /\ i \in Issued /\ j \in Issued
    /\ call[i].op = "add" /\ call[j].op = "add"
    /\ call[j].prev = i
    /\ call[j].result = "ok"
    /\ Len(fs[SessionPath(call[j].f)].data.iterations) = 2

\* C10: in every stored session completedAt is set if and only if the
\* state is approved or merged.
C10_CompletedAtIffFinal ==
  \A f \in Features :
    fs[SessionPath(f)].kind = "json" =>
      LET s == fs[SessionPath(f)].data
      IN  (s.completedAt # 0) <=> (s.state \in {"approved", "merged"})

\* ------------------------------------------------------------------------
\* Properties of the monitors
\* ------------------------------------------------------------------------
Monitored == {f \in Features : monitoredPRs[f] # 0}

\* The polling tasks of feature f that run and whose controller is not aborted.
LiveTasks(f) ==
  {c \in StartIds : /\ mon[c].f = f
                    /\ mon[c].task \notin {"none", "ended"}
                    /\ ~mon[c].aborted}

StartPending(f) ==
  \E c \in StartIds : mon[c].f = f /\ mon[c].pc # "done"

\* C4: the number of features monitored at the same time never exceeds
\* maxConcurrentPRs, whatever the interleaving of startMonitoring calls.
C4_MonitoredWithinLimit == Cardinality(Monitored) <= MaxConcurrentPRs

\* C5: once stopMonitoring has emitted stopped for a feature, no further
\* event of any type is emitted for it until the next startMonitoring call
\* for it, even when a poll's fetch was in flight at the stop.
C5_NoEventAfterStopped ==
  [][\A f \in Features :
       (quiet[f] /\ quiet'[f] /\ ~StartPending(f)) => events'[f] = events[f]]_vars

\* C6: at most one polling task runs per feature at any time.
C6_OnePollingTaskPerFeature ==
  \A f \in Features : Cardinality(LiveTasks(f)) <= 1

\* C7: a poll of the merge monitor that saw the pull request change to
\* MERGED ends with the feature verified, pr_merged emitted, the feature out
\* of monitoredPRs and its polling task over.
C7_MergeHandledThenStopped ==
  \A c \in StartIds :
    (mon[c].sawMerge /\ mon[c].task \in {"sleep", "ended"}) =>
      /\ featureStatus[mon[c].f] = "verified"
      /\ events[mon[c].f]["pr_merged"] > 0
      /\ monitoredPRs[mon[c].f] = 0
      /\ mon[c].task = "ended"

\* ------------------------------------------------------------------------
\* Properties of the orchestrator
\* ------------------------------------------------------------------------
\* The session of f has run without a manual override.
Unattended(f) == loopSession[f] # NoSession /\ ~overridden[f]

FailedEveryAttempt(f) ==
  \A k \in 1..Len(loopSession[f].iterations) :
    ~ReviewPasses(loopSession[f].iterations[k])

Pending(i) == i \in Issued /\ call[i].pc \notin {"done", "lost"}

\* No call issued before i on the feature of i is still pending.
FirstOnItsFeature(i) ==
  \A j \in Issued : (j < i /\ call[j].f = call[i].f) => ~Pending(j)

\* C11: a call that has no pending predecessor on its own feature can take
\* the lock and run at once, whatever calls on other features are pending.
C11_FeaturesIndependent ==
  \A i \in CallIds :
    (i \in Issued /\ call[i].pc = "waiting" /\ FirstOnItsFeature(i)) =>
      ENABLED (BeginWrite(i) \/ Unlink(i))

C11_Witness ==
  \E i, j \in CallIds :
    /\ i \in Issued /\ j \in Issued /\ i < j
    /\ call[i].f # call[j].f
    /\ call[i].pc \in {"writeTmp", "writing", "rename"}
    /\ call[j].pc = "done" /\ call[j].result = "ok"

\* ------------------------------------------------------------------------
\* Further properties of the monitors
\* ------------------------------------------------------------------------
\* stopMonitoring has stopped feature f and nothing has started it again.
Stopped(f) == quiet[f] /\ monitoredPRs[f] = 0 /\ ~StartPending(f)

\* C12: once stopMonitoring has stopped a feature, each of its polling
\* tasks ends when its current sleep is over; none sleeps again.
C12_TaskEndsAfterStop ==
  \A c \in StartIds :
    (mon[c].task = "sleep" /\ Stopped(mon[c].f)) => AfterWake(c) = "ended"

\* The step is a failed poll of task c.
PollFailed(c) ==
  /\ mon[c].task = "fetch" /\ mon'[c].task # "fetch"
  /\ nFetchErrors' = nFetchErrors + 1

\* C13: a poll whose fetch fails emits one error event and leaves the maps
\* alone; unless the task was aborted meanwhile it sleeps again, and its
\* next wake starts a fetch as long as the feature is monitored and active.
C13_FetchFailureKeepsPolling ==
  [][\A c \in StartIds :
       PollFailed(c) =>
         /\ events'[mon[c].f]["error"] = events[mon[c].f]["error"] + 1
         /\ monitoredPRs' = monitoredPRs /\ monitoringLoops' = monitoringLoops
         /\ ~mon[c].aborted => mon'[c].task = "sleep"
         /\ ( /\ ~mon[c].aborted
              /\ monitoredPRs[mon[c].f] # 0
              /\ monKind = "feedback" => mon[monitoredPRs[mon[c].f]].obj.status = "active" )
            => AfterWake(c)' = "fetch"]_vars

C13_Witness ==
  /\ nStarts = 1 /\ nFetchErrors = 1
  /\ mon[1].task = "fetch"
  /\ events[mon[1].f]["error"] = 1
  /\ monitoredPRs[mon[1].f] = 1

\* The step ends the pull phase of handlePRMerged in (c, who) without
\* completing it.
PullFailed(c, who) ==
  /\ PcOf(c, who) = "pull"
  /\ PcOf(c, who)' \notin {"pull", "cleanup"}
  /\ events'[mon[c].f]["pull_completed"] = events[mon[c].f]["pull_completed"]

\* C14: a failed fetch or pull after a merge emits pull_failed, leaves the
\* feature verified, and takes the feature out of monitoring with reason
\* 'merged' (emitting stopped and aborting its task when it was monitored).
C14_PullFailureStillStops ==
  [][\A c \in StartIds, who \in Callers :
       PullFailed(c, who) =>
         LET f == mon[c].f
         IN  /\ events'[f]["pull_failed"] = events[f]["pull_failed"] + 1
             /\ featureStatus[f] = "verified" /\ featureStatus'[f] = "verified"
             /\ monitoredPRs'[f] = 0 /\ monitoringLoops'[f] = 0
             /\ monitoredPRs[f] # 0 =>
                  events'[f]["stopped_merged"] = events[f]["stopped_merged"] + 1
             /\ monitoringLoops[f] # 0 => mon'[monitoringLoops[f]].aborted]_vars

C14_Witness ==
  \E c \in StartIds :
    /\ mon[c].sawMerge /\ mon[c].task = "ended"
    /\ events[mon[c].f]["pull_failed"] = 1
    /\ events[mon[c].f]["stopped_merged"] = 1
    /\ featureStatus[mon[c].f] = "verified"
    /\ monitoredPRs[mon[c].f] = 0

\* The step ends the worktree removal of (c, who) without success.
CleanupFailed(c, who) ==
  /\ PcOf(c, who) = "cleanup"
  /\ PcOf(c, who)' # "cleanup"
  /\ events'[mon[c].f]["pull_completed_cleaned"] =
       events[mon[c].f]["pull_completed_cleaned"]

FailureEvents == {"pull_failed", "error"}

\* C15: a failed worktree removal after a merge is reported by a failure
\* event and leaves the feature verified.
C15_CleanupFailureReported ==
  [][\A c \in StartIds, who \in Callers :
       CleanupFailed(c, who) =>
         /\ \E t \in FailureEvents :
              events'[mon[c].f][t] > events[mon[c].f][t]
         /\ featureStatus'[mon[c].f] = "verified"]_vars

\* The step is the return of the initial fetch of start call c.
InitialFetchReturned(c) ==
  /\ mon[c].pc = "fetch" /\ mon'[c].pc # "fetch"
  /\ events'[mon[c].f]["error"] = events[mon[c].f]["error"]

\* C16: a startMonitoring call whose initial fetch finds the pull request
\* merged or closed stores no state, launches no task and emits no started
\* event.
C16_TerminalPRNotMonitored ==
  [][\A c \in StartIds :
       (InitialFetchReturned(c) /\ prRemote[mon[c].f] \in {"MERGED", "CLOSED"}) =>
         /\ monitoredPRs'[mon[c].f] # c
         /\ monitoringLoops'[mon[c].f] # c
         /\ mon'[c].task = "none"
         /\ events'[mon[c].f]["started"] = events[mon[c].f]["started"]]_vars

\* C17: a startMonitoring call whose initial fetch fails emits one error
\* event and ends there: no started event, both maps as they were, no task.
C17_InitialFetchFailureAborts ==
  [][\A c \in StartIds :
       (mon[c].pc = "fetch" /\ mon'[c].result = "fetch_failed") =>
         /\ events'[mon[c].f]["error"] = events[mon[c].f]["error"] + 1
         /\ events'[mon[c].f]["started"] = events[mon[c].f]["started"]
         /\ monitoredPRs' = monitoredPRs /\ monitoringLoops' = monitoringLoops
         /\ mon'[c].pc = "done" /\ mon'[c].task = "none"]_vars

C17_Witness ==
  \E c \in StartIds :
    /\ mon[c].result = "fetch_failed"
    /\ events[mon[c].f]["error"] = 1
    /\ events[mon[c].f]["started"] = 0
    /\ monitoredPRs[mon[c].f] = 0

\* A startMonitoring(f) call is made in this step.
StartCalled(f) == nStarts' = nStarts + 1 /\ mon'[nStarts'].f = f

StartRefused(f) ==
  /\ events'[f]["error"] = events[f]["error"] + 1
  /\ monitoredPRs' = monitoredPRs /\ monitoringLoops' = monitoringLoops
  /\ mon'[nStarts'].pc = "done" /\ mon'[nStarts'].task = "none"

\* C18 as claimed: every startMonitoring call made while maxConcurrentPRs
\* features are monitored emits an error event and adds nothing.
C18_FullMonitorRefusesEveryStart ==
  [][\A f \in Features :
       (StartCalled(f) /\ Cardinality(Monitored) >= MaxConcurrentPRs)
         => StartRefused(f)]_vars

\* C18 as amended: so it is for a feature that is not monitored already; a
\* call for a monitored feature returns without an event and adds nothing.
C18_FullMonitorRefusesNewFeature ==
  [][\A f \in Features :
       (StartCalled(f) /\ Cardinality(Monitored) >= MaxConcurrentPRs) =>
         IF monitoredPRs[f] = 0 THEN StartRefused(f)
         ELSE /\ events' = events
              /\ monitoredPRs' = monitoredPRs /\ monitoringLoops' = monitoringLoops
              /\ mon'[nStarts'].pc = "done" /\ mon'[nStarts'].task = "none"]_vars

C18_Witness ==
  \E c \in StartIds :
    /\ mon[c].result = "full"
    /\ events[mon[c].f]["error"] = 1
    /\ monitoredPRs[mon[c].f] = 0
    /\ Cardinality(Monitored) = MaxConcurrentPRs

\* Stopped events of feature f in world w, whatever the reason.
StoppedEvents(w, f) ==
  w.ev[f][StoppedEvent("completed")] + w.ev[f][StoppedEvent("cancelled")]
    + w.ev[f][StoppedEvent("error")] + w.ev[f][StoppedEvent("merged")]

\* C19: in every state the monitor reaches, stopMonitoring(f) for a feature
\* without an entry changes nothing, and for a monitored feature it emits
\* exactly one stopped event, after which a second stopMonitoring(f) changes
\* nothing.
C19_StopIsIdempotent ==
  \A f \in Features :
    IF monitoredPRs[f] = 0
      THEN \A r \in StopReasons : stopMonitoring(World, f, r) = World
      ELSE \A r1 \in StopReasons :
             LET once == stopMonitoring(World, f, r1)
             IN  /\ StoppedEvents(once, f) = StoppedEvents(World, f) + 1
                 /\ \A r2 \in StopReasons : stopMonitoring(once, f, r2) = once

\* stopMonitoring has been called for a monitored feature, and a further
\* call finds no entry.
C19_Witness ==
  \E f \in Features :
    /\ events[f][StoppedEvent("cancelled")] = 1
    /\ monitoredPRs[f] = 0
    /\ stopMonitoring(World, f, "cancelled") = World

\* ------------------------------------------------------------------------
\* createSession on an existing session
\* ------------------------------------------------------------------------
\* Call i is a createSession that reads the session file in this step: it
\* either throws or goes on to write.
CreateReads(i) ==
  /\ call[i].op = "create" /\ call[i].pc = "waiting"
  /\ call'[i].pc \in {"done", "writeTmp"}

\* C20: a createSession that finds a session for its feature fails with the
\* already-exists error, writes nothing and leaves every file as it was.
C20_CreateOnExistingFails ==
  [][\A i \in CallIds :
       (CreateReads(i) /\ fs[SessionPath(call[i].f)].kind = "json") =>
         /\ call'[i].pc = "done" /\ call'[i].result = "exists"
         /\ call'[i].out = NoFile
         /\ fs' = fs]_vars

C20_Witness ==
  \E i \in Issued :
    /\ call[i].op = "create" /\ call[i].result = "exists"
    /\ call[i].base = fs[SessionPath(call[i].f)]
    /\ fs[SessionPath(call[i].f)].kind = "json"

\* ------------------------------------------------------------------------
\* Properties of the store's operations, one call at a time
\* ------------------------------------------------------------------------
UpdateApis ==
  {"updateSession", "addReviewResult", "transitionState", "completeSession",
   "linkPR"}

\* The session file of the feature the last call was about.
LastFile == fs[SessionPath(lastOp.f)]

\* C21: updateSession, addReviewResult, transitionState, completeSession and
\* linkPR on a feature without a stored session fail with the not-found error
\* and leave the feature without a session file.
C21_UpdateOfMissingSessionFails ==
  (lastOp.api \in UpdateApis /\ lastOp.before.kind # "json") =>
    /\ lastOp.result = "notfound"
    /\ LastFile = NoFile

C21_Witness ==
  /\ lastOp.api = "completeSession"
  /\ lastOp.before = NoFile
  /\ lastOp.result = "notfound"
  /\ LastFile = NoFile

\* C22: as long as a feature's session file exists, the featureId and the
\* startedAt stored in it stay what they were, whatever call is made and
\* whatever its payload names.
C22_FeatureIdAndStartedAtFixed ==
  [][\A f \in SessionFeatures :
       (fs[SessionPath(f)].kind = "json" /\ fs'[SessionPath(f)].kind = "json") =>
         /\ fs'[SessionPath(f)].data.featureId = fs[SessionPath(f)].data.featureId
         /\ fs'[SessionPath(f)].data.startedAt = fs[SessionPath(f)].data.startedAt]_vars

\* An update whose payload names featureId and startedAt has been stored.
C22_Witness ==
  /\ lastOp.api = "updateSession"
  /\ lastOp.result = "ok"
  /\ {"featureId", "startedAt"} \subseteq DOMAIN lastOp.updates
  /\ LastFile.data.state = lastOp.updates.state
  /\ LastFile.data.featureId = lastOp.f
  /\ LastFile.data.startedAt = lastOp.before.data.startedAt

\* updateSession and the helpers that are calls of it.
UpdateSessionApis ==
  {"updateSession", "transitionState", "completeSession", "linkPR"}

\* readSession has just returned the session of the feature that the last
\* call, a successful updateSession, was about.
ReadAfterUpdate ==
  /\ lastOp.api \in UpdateSessionApis
  /\ lastOp.result = "ok"
  /\ readLog.f = lastOp.f

\* Fields updateSession sets itself, whatever the payload says.
OwnFields == {"featureId", "startedAt", "lastUpdatedAt"}

\* C23 as claimed: readSession after a successful updateSession(updates),
\* updates within its type, gives the new value for every field named in
\* updates, a later lastUpdatedAt, and the old value for every other field.
C23_ReadAfterUpdateAdvanced ==
  (ReadAfterUpdate /\ DOMAIN lastOp.updates \cap {"featureId", "startedAt"} = {}) =>
    LET got == readLog.got.data
        old == lastOp.before.data
    IN  /\ \A k \in DOMAIN lastOp.updates : got[k] = lastOp.updates[k]
        /\ got.lastUpdatedAt > old.lastUpdatedAt
        /\ \A k \in SessionFields \ (DOMAIN lastOp.updates \cup {"lastUpdatedAt"}) :
             got[k] = old[k]

\* C23 as amended: every field named in updates other than featureId,
\* startedAt and lastUpdatedAt has the new value, lastUpdatedAt is the clock
\* reading the update took, and every other field has the old value.
C23_ReadAfterUpdate ==
  ReadAfterUpdate =>
    LET got == readLog.got.data
        old == lastOp.before.data
        named == DOMAIN lastOp.updates \ OwnFields
    IN  /\ readLog.got.kind = "json"
        /\ \A k \in named : got[k] = lastOp.updates[k]
        /\ got.lastUpdatedAt = now
        /\ \A k \in SessionFields \ (named \cup {"lastUpdatedAt"}) : got[k] = old[k]

C23_Witness ==
  /\ ReadAfterUpdate
  /\ lastOp.api = "updateSession"
  /\ "prNumber" \in DOMAIN lastOp.updates
  /\ readLog.got.data.prNumber = lastOp.updates.prNumber
  /\ readLog.got.data.lastUpdatedAt = lastOp.before.data.lastUpdatedAt

IsPrefix(s, t) == Len(s) <= Len(t) /\ SubSeq(t, 1, Len(s)) = s

\* C24: as long as a feature's session file exists, every call leaves the
\* stored iterations list a prefix of the list stored after it.
C24_IterationsAppendOnly ==
  [][\A f \in SessionFeatures :
       (fs[SessionPath(f)].kind = "json" /\ fs'[SessionPath(f)].kind = "json") =>
         IsPrefix(fs[SessionPath(f)].data.iterations,
                  fs'[SessionPath(f)].data.iterations)]_vars

\* The arrows of the review-loop state machine.
StateMachineArrows ==
  { <<"pending_self_review", "self_reviewing">>,
    <<"self_reviewing", "self_review_passed">>,
    <<"self_reviewing", "self_review_failed">>,
    <<"self_review_passed", "pr_created">>,
    <<"self_review_failed", "refining">>,
    <<"refining", "self_reviewing">>,
    <<"refining", "pr_created">>,
    <<"pr_created", "awaiting_pr_feedback">>,
    <<"awaiting_pr_feedback", "addressing_feedback">>,
    <<"addressing_feedback", "awaiting_pr_feedback">>,
    <<"addressing_feedback", "ready_for_human_review">>,
    <<"ready_for_human_review", "approved">>,
    <<"approved", "merged">> }

\* triggerRefinement, skipToPR and markReadyForHuman move a session that is
\* not finished; a merge ends a session that has a pull request.
IsSuccessor(from, to) ==
  \/ <<from, to>> \in StateMachineArrows
  \/ from \notin FinalStates /\ to \in {"refining", "pr_created", "ready_for_human_review"}
  \/ from \in AfterPRStates /\ to = "merged"

\* C25: a transitionState to a state that is neither the current state nor
\* one of its successors is rejected and leaves the session file as it was.
C25_TransitionStateValidates ==
  (/\ lastOp.api = "transitionState"
   /\ lastOp.before.kind = "json"
   /\ lastOp.updates.state # lastOp.before.data.state
   /\ ~IsSuccessor(lastOp.before.data.state, lastOp.updates.state)) =>
     /\ lastOp.result # "ok"
     /\ LastFile = lastOp.before

\* ------------------------------------------------------------------------
\* Further properties of the orchestrator
\* ------------------------------------------------------------------------
FromPRCreatedOn ==
  {"pr_created", "awaiting_pr_feedback", "addressing_feedback",
   "ready_for_human_review", "approved"}

\* C26: in every state from pr_created onwards the merged event is taken,
\* it leaves the session completed in state merged, and a session in state
\* merged never changes again.
C26_MergedEndsSession ==
  /\ [](\A f \in LoopFeatures :
          (loopSession[f] # NoSession /\ loopSession[f].state \in FromPRCreatedOn)
            => ENABLED Merged(f))
  /\ [][\A f \in LoopFeatures :
          /\ Merged(f) => /\ loopSession'[f].state = "merged"
                          /\ loopSession'[f].completedAt # 0
          /\ (loopSession[f] # NoSession /\ loopSession[f].state = "merged")
               => loopSession'[f] = loopSession[f]]_vars

\* A merged event ended a session that had been approved.
C26_Witness ==
  \E f \in LoopFeatures :
    /\ loopSession[f] # NoSession
    /\ loopSession[f].state = "merged"
    /\ loopSession[f].completedAt # 0
    /\ loopSession[f].prNumber # 0

\* C27: startLoop on a feature whose session is not finished fails and
\* leaves that session, its state and its iterations, as the only one.
C27_StartLoopRefusesSecondSession ==
  \A f \in LoopFeatures :
    (loopSession[f] # NoSession /\ loopSession[f].state \notin FinalStates) =>
      /\ startLoop(loopSession[f], f, now).failed
      /\ startLoop(loopSession[f], f, now).session = loopSession[f]
      /\ ~ENABLED StartLoop(f)

\* A session with a recorded iteration, where a second startLoop would show.
C27_Witness ==
  \E f \in LoopFeatures :
    /\ loopSession[f] # NoSession
    /\ loopSession[f].state = "refining"
    /\ Len(loopSession[f].iterations) > 0
    /\ startLoop(loopSession[f], f, now).failed

\* ------------------------------------------------------------------------
\* Properties of the quality gate and the refinement check
\* ------------------------------------------------------------------------
\* An issue that blocks: severity at or above the threshold, or a category
\* among the required ones.
IsBlocking(issue) ==
  \/ isSeverityAtOrAbove(issue.severity, gateInput.severityThreshold)
  \/ issue.category \in gateInput.requiredCategories

\* C28: evaluateRefinement returns true exactly when every blocking issue of
\* the original issues has its id among the addressed ids.
C28_RefinementChecksEveryBlockingIssue ==
  refineOut # "none" =>
    (refineOut = "true" <=>
       \A i \in DOMAIN gateInput.issues :
         IsBlocking(gateInput.issues[i]) =>
           gateInput.issues[i].id \in gateInput.addressedIds)

SomeCheck(status) == \E i \in DOMAIN gateOut.checks : gateOut.checks[i] = status

\* C29: the verdict is failed, blocking, exactly when one of the five checks
\* failed; warning, not blocking, exactly when none failed and none passed;
\* and passed, not blocking, in every other case.
C29_VerdictRule ==
  gateOut # NoGateOut =>
    /\ Len(gateOut.checks) = 5
    /\ (gateOut.verdict = "failed" /\ gateOut.shouldBlockPR) <=> SomeCheck("failed")
    /\ (gateOut.verdict = "warning" /\ ~gateOut.shouldBlockPR) <=>
         (~SomeCheck("failed") /\ ~SomeCheck("passed"))
    /\ (SomeCheck("passed") /\ ~SomeCheck("failed")) =>
         (gateOut.verdict = "passed" /\ ~gateOut.shouldBlockPR)
    /\ gateOut.verdict \in {"failed", "warning", "passed"}

\* The severity check passed and the coverage check failed: verdict failed.
C29_Witness ==
  /\ gateOut # NoGateOut
  /\ gateOut.checks[1] = "passed"
  /\ gateOut.checks[3] = "failed"
  /\ gateOut.verdict = "failed"
  /\ gateOut.shouldBlockPR

NothingSupplied ==
  /\ gateInput.issues = <<>>
  /\ gateInput.requiredCategories = {}
  /\ ~gateInput.testCoverage.defined
  /\ ~gateInput.complexityByFunction.defined
  /\ ~gateInput.duplicationPercentage.defined

\* C30: without issues, required categories and metrics every check is
\* skipped and the verdict is warning, not blocking.
C30_AllSkippedGivesWarning ==
  (gateOut # NoGateOut /\ NothingSupplied) =>
    /\ \A i \in DOMAIN gateOut.checks : gateOut.checks[i] = "skipped"
    /\ gateOut.verdict = "warning"
    /\ ~gateOut.shouldBlockPR

\* ------------------------------------------------------------------------
\* Polls of the monitors
\* ------------------------------------------------------------------------
\* The fetch of task c's poll returns in this step.
PollReturned(c) ==
  /\ mon[c].task = "fetch" /\ mon'[c].task # "fetch"
  /\ nFetchErrors' = nFetchErrors

\* Events of type t emitted for feature f in this step.
Emitted(f, t) == events'[f][t] - events[f][t]

CountOf(changed) == IF changed THEN 1 ELSE 0

\* C32: a poll of the feedback monitor emits, for each of the three change
\* categories, one event when the fetched feedback differs in that category
\* from the snapshot in the state object and none when it does not, and no
\* event of any other type.
C32_OneEventPerChangedCategory ==
  [][\A c \in StartIds :
       (monKind = "feedback" /\ PollReturned(c)) =>
         LET f == mon[c].f
             last == mon[mon[c].held].obj
             got == prFeedback[f]
         IN  /\ Emitted(f, "new_feedback") =
                  CountOf(got.comments > last.lastCommentCount
                            \/ got.reviews > last.lastReviewCount)
             /\ Emitted(f, "checks_changed") =
                  CountOf(got.checksStatus # last.checksStatus)
             /\ Emitted(f, "state_changed") =
                  CountOf(got.mergeable # last.mergeable
                            \/ got.requestedChanges # last.requestedChanges)
             /\ \A t \in EventTypes \ {"new_feedback", "checks_changed", "state_changed"} :
                  Emitted(f, t) = 0
             /\ \A g \in Features \ {f} : events'[g] = events[g]]_vars

\* One poll found a new review that requests changes: two categories.
C32_Witness ==
  \E f \in Features :
    /\ monKind = "feedback"
    /\ events[f]["new_feedback"] = 1
    /\ events[f]["state_changed"] = 1
    /\ events[f]["checks_changed"] = 0

\* No git worktree remove was ever issued.
NoWorktreeRemoval == \A f \in Features : events[f]["worktree_remove"] = 0

\* C33: with autoCleanupWorktrees false, a task that saw the pull request
\* merged ends its poll with the feature verified and out of monitoredPRs,
\* and no worktree removal is issued at any point.
C33_NoCleanupVerifiedAndStopped ==
  (monKind = "merge" /\ ~autoPull.autoCleanupWorktrees) =>
    /\ NoWorktreeRemoval
    /\ \A c \in StartIds :
         (mon[c].sawMerge /\ mon[c].task \in {"sleep", "ended"}) =>
           /\ featureStatus[mon[c].f] = "verified"
           /\ monitoredPRs[mon[c].f] = 0

\* Some call or task is inside handlePRMerged for feature f.
HandlingMerge(f) ==
  \E c \in StartIds, who \in Callers :
    mon[c].f = f /\ PcOf(c, who) \in {"update", "settings", "pull", "cleanup"}

\* C35: a detected merge is never lost: a poll of the merge monitor that
\* finds the pull request MERGED while the feature is still monitored, not
\* verified and not being handled, handles the merge (again).
C35_MergeHandledAgain ==
  [][\A c \in StartIds :
       ( /\ monKind = "merge" /\ PollReturned(c)
         /\ prRemote[mon[c].f] = "MERGED"
         /\ monitoredPRs[mon[c].f] # 0
         /\ featureStatus[mon[c].f] # "verified"
         /\ ~HandlingMerge(mon[c].f) )
       => mon'[c].task = "update"]_vars

\* C38: for the one merge of the pull request of a feature that was
\* monitored, the merge monitor sets the status and emits pr_merged at most
\* once, whatever the interleaving of startMonitoring calls, polls and
\* stopMonitoring calls.
C38_MergedAtMostOnce ==
  monKind = "merge" =>
    \A f \in Features :
      events[f]["started"] > 0 => events[f]["pr_merged"] <= 1

\* No startMonitoring call is between its first await and its return
\* (stopMonitoring has no await before its last statement).
NoCallMidExecution == \A c \in StartIds : mon[c].pc \in {"unissued", "done"}

\* C40: whenever no startMonitoring or stopMonitoring call is mid-execution,
\* monitoredPRs and monitoringLoops have the same features, and the token
\* registered for a feature is the one of the only polling task that runs
\* for it.
C40_MapsAgreeAndTokenHeld ==
  NoCallMidExecution =>
    \A f \in Features :
      /\ (monitoredPRs[f] # 0) <=> (monitoringLoops[f] # 0)
      /\ monitoringLoops[f] # 0 => LiveTasks(f) = {monitoringLoops[f]}

\* j is a createSession issued while the createSession i for the same
\* feature was pending, and i found no session.
ConcurrentCreates(i, j) ==
  /\ i \in Issued /\ j \in Issued
  /\ call[i].op = "create" /\ call[j].op = "create"
  /\ call[j].prev = i
  /\ call[i].pc = "done" /\ call[j].pc = "done"
  /\ call[i].result # "exists"

Threw(i) == call[i].pc = "done" /\ call[i].result \in {"notfound", "exists", "ioerror"}

\* The body of call j has started.
Started(j) == call[j].pc \in {"writeTmp", "writing", "rename", "done"}

\* C39: a call queued behind another call on its feature starts only when
\* that call has settled, and can start as soon as it has, also when that
\* call threw; a call that threw no longer holds the lock of its feature.
C39_ThrowReleasesLock ==
  /\ \A i \in CallIds : Threw(i) => (call[i].resolved /\ sessionLocks[call[i].f] # i)
  /\ \A j \in CallIds :
       (j \in Issued /\ call[j].prev # 0) =>
         /\ Started(j) => call[call[j].prev].pc = "done"
         /\ (call[j].pc = "waiting" /\ call[call[j].prev].pc = "done") =>
              ENABLED (BeginWrite(j) \/ Unlink(j))

\* An update of a missing session threw, a failed write threw behind it, and
\* the call queued behind both created the session.
C39_Witness ==
  \E i, j, k \in CallIds :
    /\ i \in Issued /\ j \in Issued /\ k \in Issued
    /\ call[j].prev = i /\ call[k].prev = j
    /\ call[i].pc = "done" /\ call[i].result = "notfound"
    /\ call[j].pc = "done" /\ call[j].result = "ioerror"
    /\ call[k].pc = "done" /\ call[k].result = "ok"

\* ------------------------------------------------------------------------
\* The order of severities
\* ------------------------------------------------------------------------
Severities == {"critical", "high", "medium", "low", "suggestion"}

\* critical > high > medium > low > suggestion, written out pair by pair.
MoreSevere ==
  { <<"critical", "high">>, <<"critical", "medium">>, <<"critical", "low">>,
    <<"critical", "suggestion">>, <<"high", "medium">>, <<"high", "low">>,
    <<"high", "suggestion">>, <<"medium", "low">>, <<"medium", "suggestion">>,
    <<"low", "suggestion">> }

\* C34: isSeverityAtOrAbove is a total order on the severities that matches
\* critical > high > medium > low > suggestion: of any two severities at
\* least one is at or above the other, both are only when they are equal,
\* and a is at or above b exactly when a is b or more severe than b; the
\* evaluator's counts follow that order.
C34_SeverityTotalOrder ==
  /\ \A a, b \in Severities :
       /\ isSeverityAtOrAbove(a, b) \/ isSeverityAtOrAbove(b, a)
       /\ (isSeverityAtOrAbove(a, b) /\ isSeverityAtOrAbove(b, a)) => a = b
       /\ isSeverityAtOrAbove(a, b) <=> (a = b \/ <<a, b>> \in MoreSevere)
  /\ \A a, b, c \in Severities :
       (isSeverityAtOrAbove(a, b) /\ isSeverityAtOrAbove(b, c)) => isSeverityAtOrAbove(a, c)
  /\ refineOut # "none" =>
       \A t \in Severities :
         countIssuesAtOrAboveSeverity(gateInput.issues, t) =
           Cardinality({k \in DOMAIN gateInput.issues :
                          \/ gateInput.issues[k].severity = t
                          \/ <<gateInput.issues[k].severity, t>> \in MoreSevere})

\* The refinement check ran on a critical and a low issue against the
\* threshold medium: one above it, one below.
C34_Witness ==
  /\ refineOut # "none"
  /\ gateInput.severityThreshold = "medium"
  /\ \E k, l \in DOMAIN gateInput.issues :
       /\ gateInput.issues[k].severity = "critical"
       /\ gateInput.issues[l].severity = "low"

\* ------------------------------------------------------------------------
\* Properties of parseDiff and of archiveOldSessions
\* ------------------------------------------------------------------------
\* The content lines of the diff handed in that carry the sign.
LinesWithSign(sign) == Cardinality({k \in DOMAIN diffInput : diffInput[k].sign = sign})

\* C31: for a valid unified diff summary.linesAdded is the number of its
\* '+' content lines and summary.linesRemoved the number of its '-' content
\* lines over all hunks, whatever the text of the lines.
C31_SummaryCountsContentLines ==
  diffOut.parsed =>
    /\ diffOut.linesAdded = LinesWithSign("+")
    /\ diffOut.linesRemoved = LinesWithSign("-")

\* Afterwards: the archive call returned and no store call is pending.
ArchiveOver == archive.pc = "done" /\ \A i \in Issued : call[i].pc = "done"

\* C36: after archiveOldSessions ran beside the store's calls, the session
\* each feature's last successful call committed is in the sessions
\* directory or in the archive.
C36_ArchiveKeepsLatestSession ==
  ArchiveOver =>
    \A f \in Features :
      LastCommitted(f).kind = "json" =>
        \/ fs[SessionPath(f)] = LastCommitted(f)
        \/ fs[ArchivePath(f)] = LastCommitted(f)

====
